---------------------------- MODULE Spec2Model ----------------------------
(***************************************************************************)
(* A model of im-deploy: the destroy / deploy commands (commands.rs) and   *)
(* the OpenStack orphan-resource reconciliation engine (openstack.rs).     *)
(* The program is single threaded; every action below is one segment of    *)
(* the control thread between two interactions with the outside world (an  *)
(* HTTP response, a terraform exit status, a line typed by the operator).  *)
(***************************************************************************)
EXTENDS Integers, Sequences, FiniteSets, TLC

(***************************************************************************)
(* Bounds of the model: the longest list an API response holds; for the    *)
(* monitor, the most lines kubectl prints, the largest expected node       *)
(* count, and the number of poll iterations after which no poll is left    *)
(* waiting; for the Terraform outputs, the longest array of addresses or   *)
(* hostnames; for the list selectors, the longest list of servers or       *)
(* providers and the number of Up and Down keys pressed.                   *)
(***************************************************************************)
MaxLBs == 2
MaxPorts == 2
MaxFips == 2
MaxSgs == 2
MaxLines == 2
MaxNodes == 2
MaxChecks == 3
MaxIps == 2
MaxItems == 3
MaxKeys == 4

(***************************************************************************)
(* Program constants.                                                      *)
(***************************************************************************)
LbDeletionTimeoutSecs == 120
LbPollIntervalSecs == 5
HttpTimeoutSecs == 30
NodeReadyTimeoutSecs == 600

(***************************************************************************)
(* Strings.  TLC treats a string as a sequence of characters, so prefix,   *)
(* suffix and substring tests are computed on the characters as Rust's     *)
(* str::starts_with, str::ends_with and str::contains compute them.        *)
(***************************************************************************)
StartsWith(s, p) == Len(s) >= Len(p) /\ SubSeq(s, 1, Len(p)) = p

EndsWith(s, p) == Len(s) >= Len(p) /\ SubSeq(s, Len(s) - Len(p) + 1, Len(s)) = p

Contains(s, p) ==
    \/ Len(p) = 0
    \/ \E i \in 1..(Len(s) - Len(p) + 1) : SubSeq(s, i, i + Len(p) - 1) = p

Whitespace == {" ", "\n", "\t", "\r"}

RECURSIVE TrimStart(_)
TrimStart(s) ==
    IF Len(s) > 0 /\ SubSeq(s, 1, 1) \in Whitespace
    THEN TrimStart(SubSeq(s, 2, Len(s)))
    ELSE s

RECURSIVE TrimEnd(_)
TrimEnd(s) ==
    IF Len(s) > 0 /\ SubSeq(s, Len(s), Len(s)) \in Whitespace
    THEN TrimEnd(SubSeq(s, 1, Len(s) - 1))
    ELSE s

Trim(s) == TrimEnd(TrimStart(s))

AsciiUpperToLower ==
    ("A" :> "a") @@ ("B" :> "b") @@ ("C" :> "c") @@ ("D" :> "d") @@ ("E" :> "e") @@
    ("F" :> "f") @@ ("G" :> "g") @@ ("H" :> "h") @@ ("I" :> "i") @@ ("J" :> "j") @@
    ("K" :> "k") @@ ("L" :> "l") @@ ("M" :> "m") @@ ("N" :> "n") @@ ("O" :> "o") @@
    ("P" :> "p") @@ ("Q" :> "q") @@ ("R" :> "r") @@ ("S" :> "s") @@ ("T" :> "t") @@
    ("U" :> "u") @@ ("V" :> "v") @@ ("W" :> "w") @@ ("X" :> "x") @@ ("Y" :> "y") @@
    ("Z" :> "z")

LowerChar(c) == IF c \in DOMAIN AsciiUpperToLower THEN AsciiUpperToLower[c] ELSE c

RECURSIVE ToLowercase(_)
ToLowercase(s) ==
    IF Len(s) = 0 THEN s
    ELSE LowerChar(SubSeq(s, 1, 1)) \o ToLowercase(SubSeq(s, 2, Len(s)))

EqIgnoreAsciiCase(a, b) == ToLowercase(a) = ToLowercase(b)

(***************************************************************************)
(* Option<T>: None is the empty sequence, Some(x) the one-element one.     *)
(***************************************************************************)
None == << >>
Some(x) == << x >>
IsSome(o) == o # << >>
Unwrap(o) == o[1]

(***************************************************************************)
(* HTTP.  A response is a transport error or a status code; a list         *)
(* response with a 2xx status carries a body that parses or does not.      *)
(***************************************************************************)
HttpCodes == {200, 204, 404, 409, 500}
IsSuccess(code) == code >= 200 /\ code < 300

TransportError == [err |-> TRUE, code |-> 0]
HttpResponse(c) == [err |-> FALSE, code |-> c]
Responses == {TransportError} \cup {HttpResponse(c) : c \in HttpCodes}
NoDelete == [err |-> TRUE, code |-> -1]

(***************************************************************************)
(* The resources an API response can list.  The i-th entry of a list has   *)
(* the i-th id, so the entries of one response have distinct ids.          *)
(***************************************************************************)
IdDigits == <<"1", "2", "3", "4">>
LbId(i) == "a" \o IdDigits[i]
PortId(i) == "p" \o IdDigits[i]
FipId(i) == "f" \o IdDigits[i]
SgId(i) == "s" \o IdDigits[i]

TargetNetwork == "net-1"
Networks == {TargetNetwork, "net-2"}
ClusterName == "prod"

LbNames == {"kube_service_default_web", "kube-ingress", "kube-api-lb", "prod-lb", "web"}

\* LoadBalancer (provisioning_status is only printed by the list code and is
\* left out of the list entries).
LbLists ==
    UNION { { [i \in 1..n |-> [id |-> LbId(i), name |-> f[i][1], vip_network_id |-> f[i][2]]] :
              f \in [1..n -> LbNames \X Networks] } : n \in 0..MaxLBs }

PortOwners == {"Octavia", "octavia", "compute:nova", "network:router_interface",
               "network:dhcp", "other"}
PortNames == {"octavia-lb-" \o LbId(1), "octavia-lb-" \o LbId(2)}

\* Port (network_id is never read by the cleanup code).
PortLists ==
    UNION { { [i \in 1..n |-> [id |-> PortId(i), name |-> f[i][1], device_owner |-> f[i][2]]] :
              f \in [1..n -> PortNames \X PortOwners] } : n \in 0..MaxPorts }

FipStatuses == {"ACTIVE", "DOWN", "Down"}
FipPortIds == {None, Some(PortId(1))}

FipLists ==
    UNION { { [i \in 1..n |-> [id |-> FipId(i), status |-> f[i][1], port_id |-> f[i][2]]] :
              f \in [1..n -> FipStatuses \X FipPortIds] } : n \in 0..MaxFips }

SgNames == {"lb-sg-web", "prod-server", "prod-agent", "default", "other-server"}

SgLists ==
    UNION { { [i \in 1..n |-> [id |-> SgId(i), name |-> f[i]]] :
              f \in [1..n -> SgNames] } : n \in 0..MaxSgs }


(***************************************************************************)
(* The classification rules of the reconciliation engine.                  *)
(***************************************************************************)
\* cleanup_loadbalancers: the closure of the filter over the list response.
\* The filter without its "-lb" exclusion.
IsK8sLoadBalancer_NoSuffixCheck(lb, net) ==
    /\ lb.vip_network_id = net
    /\ (StartsWith(lb.name, "kube_service_") \/ StartsWith(lb.name, "kube-"))

\* The filter without its network test.
IsK8sLoadBalancer_AnyNetwork(lb, net) ==
    /\ (StartsWith(lb.name, "kube_service_") \/ StartsWith(lb.name, "kube-"))
    /\ ~EndsWith(lb.name, "-lb")

IsK8sLoadBalancer(lb, net) ==
    /\ lb.vip_network_id = net
    /\ (StartsWith(lb.name, "kube_service_") \/ StartsWith(lb.name, "kube-"))
    /\ ~EndsWith(lb.name, "-lb")

network_lbs(loadbalancers, net) ==
    SelectSeq(loadbalancers, LAMBDA lb : IsK8sLoadBalancer(lb, net))

\* cleanup_octavia_ports: the ids collected from the load-balancer re-list.
TerraformLbIds(loadbalancers, net) ==
    { loadbalancers[i].id : i \in { j \in DOMAIN loadbalancers :
        /\ loadbalancers[j].vip_network_id = net
        /\ EndsWith(loadbalancers[j].name, "-lb") } }

IsOctaviaOwner(device_owner) ==
    StartsWith(device_owner, "Octavia") \/ StartsWith(device_owner, "octavia")

\* cleanup_octavia_ports: the closure of the filter over the port list.
IsOrphanedOctaviaPort(p, tf_lb_ids) ==
    /\ IsOctaviaOwner(p.device_owner)
    /\ \A tf_lb_id \in tf_lb_ids : ~Contains(p.name, tf_lb_id)

octavia_ports(ports, tf_lb_ids) ==
    SelectSeq(ports, LAMBDA p : IsOrphanedOctaviaPort(p, tf_lb_ids))

\* cleanup_loadbalancer_ports
lb_ports(ports) == SelectSeq(ports, LAMBDA p : IsOctaviaOwner(p.device_owner))

\* cleanup_network_ports
\* A sweep that does not protect DHCP ports.
IsOrphanedNetworkPort_DhcpUnprotected(p) ==
    /\ ~StartsWith(p.device_owner, "compute:")
    /\ ~StartsWith(p.device_owner, "network:router_")

IsOrphanedNetworkPort(p) ==
    /\ ~StartsWith(p.device_owner, "compute:")
    /\ ~StartsWith(p.device_owner, "network:router_")
    /\ ~StartsWith(p.device_owner, "network:dhcp")

orphaned_ports(ports) == SelectSeq(ports, IsOrphanedNetworkPort)

\* cleanup_floating_ips
\* A filter that wants a floating IP both down and unbound.
IsOrphanedFip_DownAndUnbound(fip) ==
    ToLowercase(fip.status) = "down" /\ fip.port_id = None

IsOrphanedFip(fip) == ToLowercase(fip.status) = "down" \/ fip.port_id = None

orphaned_fips(floatingips) == SelectSeq(floatingips, IsOrphanedFip)

\* cleanup_security_groups
\* A filter that takes the "-server" group of any cluster.
IsOrphanedSg_AnyServerGroup(sg, cl_name) ==
    \/ StartsWith(sg.name, "lb-sg-")
    \/ EndsWith(sg.name, "-server")
    \/ sg.name = cl_name \o "-agent"

IsOrphanedSg(sg, cl_name) ==
    \/ StartsWith(sg.name, "lb-sg-")
    \/ sg.name = cl_name \o "-server"
    \/ sg.name = cl_name \o "-agent"

orphaned_sgs(security_groups, cl_name) ==
    SelectSeq(security_groups, LAMBDA sg : IsOrphanedSg(sg, cl_name))

(***************************************************************************)
(* The DELETE of one candidate: the first arm of the match on the          *)
(* response ("delete accepted": 2xx or 404) against the two error arms.    *)
(***************************************************************************)
\* A match whose first arm takes 2xx only, so that a 404 falls to the error arm.
DeleteAccepted_NotFoundRefused(resp) == ~resp.err /\ IsSuccess(resp.code)

DeleteAccepted(resp) == ~resp.err /\ (IsSuccess(resp.code) \/ resp.code = 404)

\* A loop that stops at the first poll timeout.
LoopNext_BreakOnTimeout(i, outcome, len) ==
    IF outcome = "timeout" THEN len + 1 ELSE i + 1

\* A loop that stops at the first refused DELETE.
LoopNext_BreakOnFailure(i, outcome, len) ==
    IF outcome = "failed" THEN len + 1 ELSE i + 1

\* What the match on a DELETE response makes of it.  cleanup_security_groups
\* has a warning of its own for a 409 ("still in use"), counted as failed too.
DeleteOutcome(kind, resp) ==
    IF DeleteAccepted(resp) THEN "deleted"
    ELSE IF kind = "sgs" /\ ~resp.err /\ resp.code = 409 THEN "conflict"
    ELSE "failed"

\* A loop that stops at the first security group still in use.
LoopNext_BreakOnConflict(i, outcome, len) ==
    IF outcome = "conflict" THEN len + 1 ELSE i + 1

\* The `for` loop over the candidates: the next candidate follows whatever
\* the outcome ("deleted", "failed", "conflict" or "timeout") of the current
\* one was.
LoopNext(i, outcome, len) == i + 1

(***************************************************************************)
(* wait_for_lb_deletion: the responses to a status GET, and the match on   *)
(* them.  The body of a 2xx response parses as JSON or does not, and the   *)
(* parsed value has a string at loadbalancer.provisioning_status or not.   *)
(***************************************************************************)
NoBody == [json |-> FALSE, provisioning_status |-> None]
PollBodies ==
    {NoBody, [json |-> TRUE, provisioning_status |-> None]}
    \cup { [json |-> TRUE, provisioning_status |-> Some(s)] :
             s \in {"DELETED", "ERROR", "PENDING_DELETE", "ACTIVE"} }
PollResponses ==
    {[err |-> TRUE, code |-> 0, body |-> NoBody]}
    \cup { [err |-> FALSE, code |-> c, body |-> NoBody] : c \in {404, 500} }
    \cup { [err |-> FALSE, code |-> 200, body |-> b] : b \in PollBodies }
NoPoll == [err |-> TRUE, code |-> -1, body |-> NoBody]

\* A match that keeps polling a load balancer in ERROR.
PollIsTerminal_ErrorRetried(resp) ==
    IF ~resp.err /\ resp.code = 404 THEN TRUE
    ELSE IF ~resp.err /\ IsSuccess(resp.code)
         THEN /\ resp.body.json
              /\ IsSome(resp.body.provisioning_status)
              /\ Unwrap(resp.body.provisioning_status) = "DELETED"
         ELSE FALSE

\* A match whose catch-all arm returns Ok(()): a status GET that failed is
\* taken to mean that the load balancer is gone.
PollIsTerminal_ErrorAssumedDeleted(resp) ==
    IF ~resp.err /\ resp.code = 404 THEN TRUE
    ELSE IF ~resp.err /\ IsSuccess(resp.code)
         THEN /\ resp.body.json
              /\ IsSome(resp.body.provisioning_status)
              /\ Unwrap(resp.body.provisioning_status) \in {"DELETED", "ERROR"}
         ELSE TRUE

\* TRUE when the match returns Ok(()), FALSE when it sleeps and retries.
PollIsTerminal(resp) ==
    IF ~resp.err /\ resp.code = 404 THEN TRUE
    ELSE IF ~resp.err /\ IsSuccess(resp.code)
         THEN /\ resp.body.json
              /\ IsSome(resp.body.provisioning_status)
              /\ Unwrap(resp.body.provisioning_status) \in {"DELETED", "ERROR"}
         ELSE FALSE

\* The check at the top of every iteration of the poll loop.
PollTimedOut(elapsed_secs, timeout_secs) == elapsed_secs > timeout_secs

\* The time one HTTP request takes: none, or the client's whole timeout.
Latencies == {0, HttpTimeoutSecs}

(***************************************************************************)
(* confirm_action: the answer computed from the line read from stdin.      *)
(***************************************************************************)
\* A confirm_action whose empty answer is always yes.
confirm_action_EmptyIsYes(line, default_yes) ==
    LET trimmed == Trim(line)
    IN  IF Len(trimmed) = 0 THEN TRUE
        ELSE EqIgnoreAsciiCase(trimmed, "y")

\* A confirm_action that reads every non-empty answer as yes.
confirm_action_AnyAnswerIsYes(line, default_yes) ==
    LET trimmed == Trim(line)
    IN  IF Len(trimmed) = 0 THEN default_yes
        ELSE TRUE

confirm_action(line, default_yes) ==
    LET trimmed == Trim(line)
    IN  IF Len(trimmed) = 0 THEN default_yes
        ELSE EqIgnoreAsciiCase(trimmed, "y")

\* The lines an operator can type (the empty string is end of input).
Inputs == {"", "\n", "y\n", "Y\n", " y \n", "n\n", "yes\n"}

(***************************************************************************)
(* cmd_monitor: what one poll iteration reads, and what it decides.        *)
(* A remote command (ssh ... .output()) cannot be spawned, exits non-zero, *)
(* or succeeds with some stdout.                                           *)
(***************************************************************************)
CmdKinds == {"spawn_error", "nonzero", "ok"}

\* The time `kubectl get nodes` takes over ssh: none, or, for one that ends
\* with a non-zero exit while the monitor has run for less than ten minutes,
\* ten minutes.
CommandSecs(kind, elapsed) ==
    IF kind = "nonzero" /\ elapsed < NodeReadyTimeoutSecs
    THEN {0, NodeReadyTimeoutSecs}
    ELSE {0}

\* str::lines: the text split at "\n", without a last empty line.
RECURSIVE Lines(_)
Lines(s) ==
    IF s = "" THEN << >>
    ELSE LET nl == {i \in 1..Len(s) : SubSeq(s, i, i) = "\n"}
         IN  IF nl = {} THEN <<s>>
             ELSE LET i == CHOOSE k \in nl : \A j \in nl : k <= j
                  IN  <<SubSeq(s, 1, i - 1)>> \o Lines(SubSeq(s, i + 1, Len(s)))

RECURSIVE JoinLines(_)
JoinLines(ls) ==
    IF ls = << >> THEN "" ELSE ls[1] \o "\n" \o JoinLines(SubSeq(ls, 2, Len(ls)))

\* Lines of `kubectl get nodes --no-headers`.
NodeLines == {"s0   Ready    master", "a0   NotReady   <none>",
              "a1   Ready,SchedulingDisabled   <none>"}

NodeOutputs ==
    {"\n"} \cup UNION { {JoinLines(ls) : ls \in [1..n -> NodeLines]} : n \in 0..MaxLines }

\* Phase 1, the counts and the test on them.
ready_count(nodes_output) ==
    LET ls == Lines(nodes_output)
    IN  Cardinality({i \in DOMAIN ls : Contains(ls[i], " Ready ")})

total_count(nodes_output) == Len(Lines(nodes_output))

\* A test on the ready count alone, with a looser marker.
NodesReady_LooseMarker(nodes_output, expected) ==
    LET ls == Lines(nodes_output)
    IN  Cardinality({i \in DOMAIN ls : Contains(ls[i], "Ready")}) >= expected

NodesReady(nodes_output, expected) ==
    ready_count(nodes_output) >= expected /\ total_count(nodes_output) >= expected

\* Phase 1, one iteration: "wait" sleeps and polls again, "complete" records
\* nodes_ready_time and breaks, "error" is the `?` on the spawn of the
\* `kubectl get nodes -o wide` that follows the recording.
NodesStep(obs, expected) ==
    IF obs.cmd # "ok" THEN "wait"
    ELSE IF Trim(obs.stdout) = "" THEN "wait"
    ELSE IF ~NodesReady(obs.stdout, expected) THEN "wait"
    ELSE IF obs.cmd2 = "spawn_error" THEN "error"
    ELSE "complete"

\* Phases 2 to 4: the marker k3s-server.log must hold before the phase's own
\* install log is read, and the marker that completes the phase.
InstallPhases == {"gpu", "argocd", "serve"}

StartMarker(ph) ==
    CASE ph = "gpu" -> "Installing NVIDIA GPU Operator..."
      [] ph = "argocd" -> "Installing ArgoCD..."
      [] ph = "serve" -> "Setting up Tailscale Serve for ArgoCD..."

CompleteMarker(ph) ==
    CASE ph = "gpu" -> "GPU Operator installation complete!"
      [] ph = "argocd" -> "ArgoCD installation complete!"
      [] ph = "serve" -> "Tailscale Serve configured successfully for ArgoCD"

ServerLogs ==
    { a \o b : a \in {"cloud-init running\n"} \cup {StartMarker(ph) \o "\n" : ph \in InstallPhases},
               b \in {"", "level=ERROR msg=boom\n", "FATAL: k3s exited\n"} }

InstallLogs ==
    {"", "applying manifests\n", "WARNING: retrying\n", "ERROR: install failed\n"}
    \cup {CompleteMarker(ph) \o "\n" : ph \in InstallPhases}
    \cup {"ERROR: retried\n" \o CompleteMarker(ph) \o "\n" : ph \in InstallPhases}

\* The check of k3s-server.log for errors.
HasServerError(server_log) ==
    /\ Contains(server_log, "ERROR") \/ Contains(server_log, "FATAL")
    /\ LET ls == Lines(server_log)
           error_lines == {i \in DOMAIN ls :
                              Contains(ls[i], "ERROR") \/ Contains(ls[i], "FATAL")}
       IN  error_lines # {}

\* One iteration of an install phase whose remote commands must succeed.
InstallStep_CommandFailureFatal(ph, obs) ==
    IF obs.cmd # "ok" THEN "server_error"
    ELSE IF HasServerError(obs.stdout) THEN "server_error"
    ELSE IF ~Contains(obs.stdout, StartMarker(ph)) THEN "wait"
    ELSE IF obs.cmd2 # "ok" THEN "install_error"
    ELSE IF Contains(obs.stdout2, CompleteMarker(ph)) THEN "complete"
    ELSE IF Contains(obs.stdout2, "ERROR") THEN "install_error"
    ELSE "wait"

\* One iteration of an install phase that looks for the start marker before
\* it looks for errors in k3s-server.log.
InstallStep_StartMarkerFirst(ph, obs) ==
    IF obs.cmd # "ok" THEN "wait"
    ELSE IF ~Contains(obs.stdout, StartMarker(ph)) THEN
            IF HasServerError(obs.stdout) THEN "server_error" ELSE "wait"
    ELSE IF obs.cmd2 # "ok" THEN "wait"
    ELSE IF Contains(obs.stdout2, CompleteMarker(ph)) THEN "complete"
    ELSE IF Contains(obs.stdout2, "ERROR") THEN "install_error"
    ELSE "wait"

\* One iteration of an install phase that looks for "ERROR" in the install log
\* before it looks for the completion marker.
InstallStep_ErrorFirst(ph, obs) ==
    IF obs.cmd # "ok" THEN "wait"
    ELSE IF HasServerError(obs.stdout) THEN "server_error"
    ELSE IF ~Contains(obs.stdout, StartMarker(ph)) THEN "wait"
    ELSE IF obs.cmd2 # "ok" THEN "wait"
    ELSE IF Contains(obs.stdout2, "ERROR") THEN "install_error"
    ELSE IF Contains(obs.stdout2, CompleteMarker(ph)) THEN "complete"
    ELSE "wait"

\* One iteration of an install phase: "wait" goes round the loop, "complete"
\* records the phase's time and breaks, "server_error" and "install_error"
\* are the two bail!s.
InstallStep(ph, obs) ==
    IF obs.cmd # "ok" THEN "wait"
    ELSE IF HasServerError(obs.stdout) THEN "server_error"
    ELSE IF ~Contains(obs.stdout, StartMarker(ph)) THEN "wait"
    ELSE IF obs.cmd2 # "ok" THEN "wait"
    ELSE IF Contains(obs.stdout2, CompleteMarker(ph)) THEN "complete"
    ELSE IF Contains(obs.stdout2, "ERROR") THEN "install_error"
    ELSE "wait"

\* A monitor that enters every phase, whatever the flags.
NextPhase_IgnoreFlags(ph, gpu, argocd) ==
    CASE ph = "nodes" -> "gpu"
      [] ph = "gpu" -> "argocd"
      [] ph = "argocd" -> "serve"
      [] OTHER -> "summary"

\* What follows a completed phase: the `if gpu_enabled` / `if argocd_enabled`
\* blocks in the order of the source, then the final summary.
NextPhase(ph, gpu, argocd) ==
    CASE ph = "nodes" -> IF gpu THEN "gpu" ELSE IF argocd THEN "argocd" ELSE "summary"
      [] ph = "gpu" -> IF argocd THEN "argocd" ELSE "summary"
      [] ph = "argocd" -> IF argocd THEN "serve" ELSE "summary"
      [] OTHER -> "summary"

\* What the environment holds in one poll iteration: the outcome of the
\* first remote command and its stdout, and those of the second one, which
\* the code runs or not.
NoObservation == [phase |-> "none", cmd |-> "none", stdout |-> "", cmd2 |-> "none", stdout2 |-> ""]

Stdouts(kind, texts) == IF kind = "ok" THEN texts ELSE {""}

\* The second remote command of an iteration is run only where the code
\* reaches it: `kubectl get nodes -o wide` once the nodes are counted ready,
\* the tail of the phase's install log once k3s-server.log was read without
\* an error line and holds the phase's start marker.  Where the install log
\* is not read (cmd2 = "none"), stdout2 is what its tail holds on the server.
NodeObservations(expected) ==
    { [phase |-> "nodes", cmd |-> k, stdout |-> "", cmd2 |-> "none", stdout2 |-> ""] :
        k \in CmdKinds \ {"ok"} }
    \cup UNION { { [phase |-> "nodes", cmd |-> "ok", stdout |-> out, cmd2 |-> k2, stdout2 |-> ""] :
                     k2 \in IF Trim(out) # "" /\ NodesReady(out, expected)
                            THEN CmdKinds ELSE {"none"} } : out \in NodeOutputs }

ReachesInstallLog(ph, server_log) ==
    ~HasServerError(server_log) /\ Contains(server_log, StartMarker(ph))

InstallObservations(ph) ==
    { [phase |-> ph, cmd |-> k, stdout |-> "", cmd2 |-> "none", stdout2 |-> ""] :
        k \in CmdKinds \ {"ok"} }
    \cup { [phase |-> ph, cmd |-> "ok", stdout |-> out, cmd2 |-> "none", stdout2 |-> out2] :
             out \in {l \in ServerLogs : ~ReachesInstallLog(ph, l)},
             out2 \in {"", CompleteMarker(ph) \o "\n"} }
    \cup UNION { { [phase |-> ph, cmd |-> "ok", stdout |-> out, cmd2 |-> k2, stdout2 |-> out2] :
                     out \in {l \in ServerLogs : ReachesInstallLog(ph, l)},
                     out2 \in Stdouts(k2, InstallLogs) } : k2 \in CmdKinds }

\* The observations of each phase, as a table: for the nodes, one set for
\* each expected node count.
ObservationsOf ==
    [nodes |-> { <<expected, NodeObservations(expected)>> : expected \in 1..MaxNodes },
     gpu |-> InstallObservations("gpu"),
     argocd |-> InstallObservations("argocd"),
     serve |-> InstallObservations("serve")]

(***************************************************************************)
(* A function called on its own.  Its return value is Pending until it     *)
(* has returned, then Ok(v) or Err(e).                                     *)
(***************************************************************************)
Pending == [state |-> "pending", val |-> << >>]
Ok(v) == [state |-> "ok", val |-> v]
Err(e) == [state |-> "err", val |-> e]
NoCall == [fn |-> "none", args |-> << >>, ret |-> Pending]

(***************************************************************************)
(* ConnectionStrategy::from_server.                                        *)
(***************************************************************************)
\* A strategy that takes the bastion whenever there is one.
from_server_BastionFirst(server, bastion_ip) ==
    IF IsSome(bastion_ip)
    THEN Ok([strategy |-> "Bastion", bastion_ip |-> Unwrap(bastion_ip), target_ip |-> server.ip])
    ELSE IF IsSome(server.tailscale_hostname)
    THEN Ok([strategy |-> "Tailscale", hostname |-> Unwrap(server.tailscale_hostname)])
    ELSE Err("NoConnectionMethod")

from_server(server, bastion_ip) ==
    IF IsSome(server.tailscale_hostname)
    THEN Ok([strategy |-> "Tailscale", hostname |-> Unwrap(server.tailscale_hostname)])
    ELSE IF IsSome(bastion_ip)
    THEN Ok([strategy |-> "Bastion", bastion_ip |-> Unwrap(bastion_ip), target_ip |-> server.ip])
    ELSE Err("NoConnectionMethod")

\* Addresses a load balancer is reached at.
Addresses == {"5.6.7.8", "10.0.0.5", "192.168.1.100", "[2001:db8::1]"}

\* The servers from_server is called with.
ServerInfos ==
    { [name |-> n, ip |-> ip, cloud_provider |-> "openstack", tailscale_hostname |-> h] :
        n \in {"k3s-server-0", "k3s-agent-0"}, ip \in {"10.0.0.10", "10.0.2.10"},
        h \in {None, Some(""), Some("server-0.tailnet.ts.net")} }

(***************************************************************************)
(* The Terraform outputs (`terraform output -json`, parsed): a key is      *)
(* absent (None) or holds a value; an array is a sequence of JSON values,  *)
(* each a string or null.                                                  *)
(***************************************************************************)
JStr(x) == [t |-> "str", v |-> x]
JNull == [t |-> "null", v |-> ""]

\* serde_json::Value::as_str
as_str(j) == IF j.t = "str" THEN Some(j.v) ELSE None

\* format!("{}", i) for a small index
IndexString(i) == <<"0", "1", "2", "3", "4", "5", "6", "7", "8", "9">>[i + 1]

\* The values element i (counted from 0) of an array of the outputs can hold.
ArrayElems(key, i) ==
    CASE key = "server_ips" -> {JStr("10.0.1.1" \o IndexString(i)), JNull}
      [] key = "agent_ips" -> {JStr("10.0.2.1" \o IndexString(i)), JNull}
      [] key = "openstack_servers" ->
            {JStr("k3s-server-" \o IndexString(i) \o ".tailnet.ts.net"), JNull}
      [] key = "openstack_agents" ->
            {JStr("k3s-agent-" \o IndexString(i) \o ".tailnet.ts.net")}

\* The absent key, and the arrays of up to MaxIps elements it can hold.
OptArrays(key) ==
    {None} \cup UNION { { Some(a) : a \in { f \in [1..n -> UNION {ArrayElems(key, i - 1) : i \in 1..n}] :
                                               \A i \in 1..n : f[i] \in ArrayElems(key, i - 1) } } :
                        n \in 0..MaxIps }

\* What extract_cloud_providers reads of the outputs.
TopologyOutputs ==
    [ tailscale_enabled : {None, Some(TRUE), Some(FALSE)},
      openstack_servers : OptArrays("openstack_servers"),
      openstack_agents : OptArrays("openstack_agents"),
      bastion_ip : {None, Some("1.2.3.4")},
      server_ips : OptArrays("server_ips"),
      agent_ips : OptArrays("agent_ips") ]

\* arr.get(i).and_then(|v| v.as_str()) on an optional array, i counted from 0
HostnameAt(ts, i) ==
    IF ts = None THEN None
    ELSE IF i + 1 > Len(Unwrap(ts)) THEN None
    ELSE as_str(Unwrap(ts)[i + 1])

\* The `for (i, ip) in ips.iter().enumerate()` loops: one entry for every
\* element that is a string, named after the element's index.
RECURSIVE PushEntries(_, _, _, _)
PushEntries(prefix, ips, ts, i) ==
    IF i + 1 > Len(ips) THEN << >>
    ELSE (IF as_str(ips[i + 1]) # None
          THEN << [name |-> prefix \o IndexString(i),
                   ip |-> Unwrap(as_str(ips[i + 1])),
                   cloud_provider |-> "openstack",
                   tailscale_hostname |-> HostnameAt(ts, i)] >>
          ELSE << >>)
         \o PushEntries(prefix, ips, ts, i + 1)

\* The entries of an optional array of addresses.
EntriesOf(prefix, ips, ts) ==
    IF ips = None THEN << >> ELSE PushEntries(prefix, Unwrap(ips), ts, 0)

\* An extraction that attaches the hostnames whatever tailscale_enabled says.
extract_cloud_providers_HostnamesAlways(outputs) ==
    LET servers == EntriesOf("k3s-server-", outputs.server_ips, outputs.openstack_servers)
                   \o EntriesOf("k3s-agent-", outputs.agent_ips, outputs.openstack_agents)
    IN  IF servers = << >> THEN Err("No cloud providers found in terraform outputs")
        ELSE Ok(<< [name |-> "OpenStack", bastion_ip |-> outputs.bastion_ip,
                    tailscale_enabled |-> (outputs.tailscale_enabled = Some(TRUE)),
                    servers |-> servers] >>)

\* extract_cloud_providers, for outputs that hold an openstack_cluster.
extract_cloud_providers(outputs) ==
    LET tailscale_enabled == outputs.tailscale_enabled = Some(TRUE)
        ts_servers == IF tailscale_enabled THEN outputs.openstack_servers ELSE None
        ts_agents == IF tailscale_enabled THEN outputs.openstack_agents ELSE None
        servers == EntriesOf("k3s-server-", outputs.server_ips, ts_servers)
                   \o EntriesOf("k3s-agent-", outputs.agent_ips, ts_agents)
    IN  IF servers = << >> THEN Err("No cloud providers found in terraform outputs")
        ELSE Ok(<< [name |-> "OpenStack", bastion_ip |-> outputs.bastion_ip,
                    tailscale_enabled |-> tailscale_enabled,
                    servers |-> servers] >>)

\* cmd_ssh, cmd_copy_kubeconfig and cmd_monitor: the `if
\* provider.tailscale_enabled { if let Some(hostname) = ... } else if let
\* Some(bastion_ip) = provider.bastion_ip { ... } else { bail! }` that each
\* of them builds its ssh command with.
connection_method(provider, server) ==
    IF provider.tailscale_enabled
    THEN IF IsSome(server.tailscale_hostname)
         THEN Ok([strategy |-> "Tailscale", hostname |-> Unwrap(server.tailscale_hostname)])
         ELSE Err("Tailscale is enabled but hostname not found for server")
    ELSE IF IsSome(provider.bastion_ip)
    THEN Ok([strategy |-> "Bastion", bastion_ip |-> Unwrap(provider.bastion_ip),
             target_ip |-> server.ip])
    ELSE Err("Neither Tailscale nor bastion host available for SSH connection")

\* A count of expected nodes that only ever looks at the extracted topology.
cmd_monitor_expected_nodes_TopologyOnly(outputs, tailscale_ok) ==
    LET extracted == extract_cloud_providers(outputs.topology)
    IN  IF extracted.state = "err" THEN extracted
        ELSE LET provider == extracted.val[1]
                 named(word) == Cardinality({ i \in DOMAIN provider.servers :
                                                Contains(provider.servers[i].name, word) })
             IN  IF provider.tailscale_enabled /\ ~tailscale_ok
                 THEN Err("Cannot monitor via Tailscale")
                 ELSE IF named("server") = 0 THEN Err("Could not find k3s-server-0")
                 ELSE IF named("server") + named("agent") = 0
                 THEN Err("No nodes found in Terraform outputs")
                 ELSE Ok(named("server") + named("agent"))

\* cmd_monitor up to the check of expected_nodes: the error it returns with,
\* or the expected_nodes it goes on to poll with.  all_server_ips and
\* all_agent_ips are None unless the output is there and holds an array.
cmd_monitor_expected_nodes(outputs, tailscale_ok) ==
    LET extracted == extract_cloud_providers(outputs.topology)
    IN  IF extracted.state = "err" THEN extracted
        ELSE LET provider == extracted.val[1]
                 named(word) == Cardinality({ i \in DOMAIN provider.servers :
                                                Contains(provider.servers[i].name, word) })
                 server_count == IF outputs.all_server_ips # None
                                 THEN Len(Unwrap(outputs.all_server_ips))
                                 ELSE named("server")
                 agent_count == IF outputs.all_agent_ips # None
                                THEN Len(Unwrap(outputs.all_agent_ips))
                                ELSE named("agent")
             IN  IF provider.tailscale_enabled /\ ~tailscale_ok
                 THEN Err("Cannot monitor via Tailscale")
                 ELSE IF named("server") = 0 THEN Err("Could not find k3s-server-0")
                 ELSE IF server_count + agent_count = 0
                 THEN Err("No nodes found in Terraform outputs")
                 ELSE Ok(server_count + agent_count)

\* str::find: the index, counted from 0, of the first occurrence of pat in s.
Find(s, pat) ==
    LET at == { i \in 0..(Len(s) - Len(pat)) : SubSeq(s, i + 1, i + Len(pat)) = pat }
    IN  IF at = {} THEN None ELSE Some(CHOOSE i \in at : \A j \in at : i <= j)

\* A rewrite that cuts at the last ":6443" of the text.
rewrite_kubeconfig_LastPort(kubeconfig, lb_floating_ip) ==
    LET start == Find(kubeconfig, "server: https://")
    IN  IF start = None THEN kubeconfig
        ELSE LET prefix == SubSeq(kubeconfig, 1, Unwrap(start) + 16)
                 rest == SubSeq(kubeconfig, Unwrap(start) + 17, Len(kubeconfig))
                 at == { i \in 0..(Len(rest) - 5) : SubSeq(rest, i + 1, i + 5) = ":6443" }
             IN  IF at = {} THEN kubeconfig
                 ELSE prefix \o lb_floating_ip
                      \o SubSeq(rest, (CHOOSE i \in at : \A j \in at : i >= j) + 1, Len(rest))

\* cmd_copy_kubeconfig: the text written to ./kubeconfig for the text read
\* from the server.
rewrite_kubeconfig(kubeconfig, lb_floating_ip) ==
    LET start == Find(kubeconfig, "server: https://")
    IN  IF start = None THEN kubeconfig
        ELSE LET prefix == SubSeq(kubeconfig, 1, Unwrap(start) + 16)
                 rest == SubSeq(kubeconfig, Unwrap(start) + 17, Len(kubeconfig))
                 port_pos == Find(rest, ":6443")
             IN  IF port_pos = None THEN kubeconfig
                 ELSE prefix \o lb_floating_ip
                      \o SubSeq(rest, Unwrap(port_pos) + 1, Len(rest))

\* str::trim_start_matches and str::trim_end_matches: every repetition of
\* pat is taken off.
RECURSIVE trim_start_matches(_, _)
trim_start_matches(s, pat) ==
    IF Len(pat) > 0 /\ StartsWith(s, pat)
    THEN trim_start_matches(SubSeq(s, Len(pat) + 1, Len(s)), pat)
    ELSE s

RECURSIVE trim_end_matches(_, _)
trim_end_matches(s, pat) ==
    IF Len(pat) > 0 /\ EndsWith(s, pat)
    THEN trim_end_matches(SubSeq(s, 1, Len(s) - Len(pat)), pat)
    ELSE s

\* An extraction that asks openstack_cluster.loadbalancer_ip first.
lb_floating_ip_ClusterFirst(outputs) ==
    IF outputs.loadbalancer_ip # None THEN Ok(Unwrap(outputs.loadbalancer_ip))
    ELSE IF outputs.primary_api_endpoint # None
    THEN Ok(trim_end_matches(trim_start_matches(Unwrap(outputs.primary_api_endpoint),
                                                "https://"), ":6443"))
    ELSE Err("Could not get load balancer IP")

\* cmd_copy_kubeconfig: lb_floating_ip, for the OpenStack provider.  Each
\* output is None unless it is there and holds a string.
lb_floating_ip(outputs) ==
    IF outputs.primary_api_endpoint # None
    THEN Ok(trim_end_matches(trim_start_matches(Unwrap(outputs.primary_api_endpoint),
                                                "https://"), ":6443"))
    ELSE IF outputs.loadbalancer_ip # None THEN Ok(Unwrap(outputs.loadbalancer_ip))
    ELSE Err("Could not get load balancer IP")

\* str::replace: every occurrence of from in s, read left to right, gives to.
RECURSIVE Replace(_, _, _)
Replace(s, from, to) ==
    LET at == Find(s, from)
    IN  IF at = None \/ Len(from) = 0 THEN s
        ELSE SubSeq(s, 1, Unwrap(at)) \o to
             \o Replace(SubSeq(s, Unwrap(at) + Len(from) + 1, Len(s)), from, to)

\* OpenStackClient::new: the error, or the client, it returns for the answer
\* to its token request.  setup is "ok" unless reading or parsing the CA
\* certificate, or building the HTTP client, failed.
OpenStackClient_new(auth_url, setup, response) ==
    IF setup # "ok" THEN Err("Failed to read CA certificate")
    ELSE IF response.err THEN Err("Failed to authenticate with OpenStack")
    ELSE IF ~IsSuccess(response.code) THEN Err("OpenStack authentication failed")
    ELSE IF response.token = None THEN Err("No X-Subject-Token in response")
    ELSE IF ~Unwrap(response.token).visible_ascii THEN Err("Invalid X-Subject-Token header")
    ELSE IF ~response.body_is_token_response
    THEN Err("Failed to parse authentication response")
    ELSE Ok([auth_token |-> Unwrap(response.token).text,
             neutron_endpoint |-> Replace(auth_url, ":5000/v3", ":9696/v2.0"),
             octavia_endpoint |-> Replace(auth_url, ":5000/v3", ":9876/v2.0")])

(***************************************************************************)
(* State.                                                                  *)
(***************************************************************************)
VARIABLES
    cmd,              \* the command run: "deploy", "destroy", or a direct call
                      \* of the public cleanup_orphaned_resources ("orphans")
    auto_confirm,     \* cli.yes
    has_openstack,    \* config.openstack.is_some()
    tf_dir_exists,    \* terraform_dir/.terraform exists
    pc,               \* position of the command
    result,           \* "none" while running, then "Ok" or "Err"
    network_id,       \* Option<String>
    cluster_name,     \* Option<String>
    prompt,           \* confirm_action: the prompt shown, as an Option,
    input,            \* and the line read, until the command moves on
    confirmed,        \* history: the operator typed y or Y at the first prompt
    tfLog,            \* history: the terraform subcommands spawned, in order
    effects,          \* history: the kinds of outside effect caused so far
    order,            \* history: the kinds of DELETE request, in order of
                      \* first issue within a block of equal kinds
    entry,            \* the reconciliation entry point being run
    step,             \* the cleanup function being run
    phase,            \* its position: "relist", "list", "loop", "poll", "end"
    stepResult,       \* what the cleanup function returns
    listStatus,       \* what became of its list request
    listed,           \* the list response
    candidates,       \* the filtered list the loop iterates
    idx,              \* index of the candidate the loop is at
    deleted_count,
    failed_count,
    terraform_lb_ids, \* cleanup_octavia_ports: ids of Terraform's load balancers
    tfOwnedIds,       \* history: the ids of the load balancers that do exist on
                      \* the network with a name ending "-lb" at the re-list
    elapsed,          \* wait_for_lb_deletion: start.elapsed() in seconds
    reqs,             \* history: the resources a DELETE was issued for, this step
    outcomes,         \* history, one per entry of reqs: "deleted", "failed" (the
                      \* DELETE was refused), "conflict" (a security group still
                      \* in use) or "timeout" (the poll timed out); the code
                      \* counts the last three as failed
    lastPoll,         \* history: the last response to a status GET
    lastDelete,       \* history: the response to the DELETE that the function's
                      \* last action sent, NoDelete after any other action
    gpu_enabled,      \* cmd_monitor: the enable_nvidia_gpu_operator output
    argocd_enabled,   \* the enable_argocd output
    expected_nodes,   \* server_count + agent_count
    connection,       \* "tailscale" (enabled, server_0 has a hostname),
                      \* "bastion" (not enabled, a bastion ip) or "none"
    now,              \* start_time.elapsed() in seconds
    nodes_ready_time,
    gpu_install_start,
    gpu_install_complete,
    argocd_install_start,
    argocd_install_complete,
    argocd_tailscale_start,
    argocd_tailscale_complete,
    polls,            \* history: the number of poll iterations so far
    polled,           \* history: the phases that ran a remote command
    observed,         \* history: what the last poll iteration had to read
    call              \* a function called on its own: its name, its arguments
                      \* and, once it has returned, what it returned

cmdVars == <<cmd, auto_confirm, has_openstack, tf_dir_exists, pc, result,
             network_id, cluster_name, prompt, input, confirmed, tfLog, effects>>
stepVars == <<stepResult, listStatus, listed, candidates, idx, deleted_count, failed_count,
              terraform_lb_ids, tfOwnedIds, elapsed, reqs, outcomes, lastPoll, lastDelete>>
engineVars == <<entry, step, phase, order, stepVars>>
monVars == <<gpu_enabled, argocd_enabled, expected_nodes, connection, now, nodes_ready_time,
             gpu_install_start, gpu_install_complete, argocd_install_start,
             argocd_install_complete, argocd_tailscale_start, argocd_tailscale_complete,
             polls, polled, observed>>
vars == <<cmdVars, engineVars, monVars, call>>

\* The locals of a cleanup function before it has run.
FreshStep ==
    /\ stepResult' = "none"
    /\ listStatus' = "none"
    /\ listed' = << >>
    /\ candidates' = << >>
    /\ idx' = 1
    /\ deleted_count' = 0
    /\ failed_count' = 0
    /\ terraform_lb_ids' = {}
    /\ tfOwnedIds' = {}
    /\ elapsed' = 0
    /\ reqs' = << >>
    /\ outcomes' = << >>
    /\ lastPoll' = NoPoll
    /\ lastDelete' = NoDelete

\* The reconciliation engine before any entry point has been called.
EngineIdle ==
    /\ order = << >>
    /\ entry = "none"
    /\ step = "none"
    /\ phase = "none"
    /\ stepResult = "none"
    /\ listStatus = "none"
    /\ listed = << >>
    /\ candidates = << >>
    /\ idx = 1
    /\ deleted_count = 0
    /\ failed_count = 0
    /\ terraform_lb_ids = {}
    /\ tfOwnedIds = {}
    /\ elapsed = 0
    /\ reqs = << >>
    /\ outcomes = << >>
    /\ lastPoll = NoPoll
    /\ lastDelete = NoDelete

\* The locals of cmd_monitor in a run of another command.
MonitorIdle ==
    /\ gpu_enabled = FALSE
    /\ argocd_enabled = FALSE
    /\ expected_nodes = 1
    /\ connection = "none"
    /\ now = 0
    /\ nodes_ready_time = None
    /\ gpu_install_start = None
    /\ gpu_install_complete = None
    /\ argocd_install_start = None
    /\ argocd_install_complete = None
    /\ argocd_tailscale_start = None
    /\ argocd_tailscale_complete = None
    /\ polls = 0
    /\ polled = {}
    /\ observed = NoObservation

Init ==
    /\ cmd \in {"deploy", "destroy", "orphans"}
    /\ auto_confirm \in BOOLEAN
    /\ has_openstack \in BOOLEAN
    /\ tf_dir_exists \in BOOLEAN
    /\ (cmd = "orphans" =>
            auto_confirm = FALSE /\ has_openstack = TRUE
            /\ tf_dir_exists = TRUE)
    /\ pc = "start"
    /\ result = "none"
    /\ network_id \in (IF cmd = "orphans" THEN {None, Some(TargetNetwork)} ELSE {None})
    /\ cluster_name = None
    /\ prompt = None
    /\ confirmed = FALSE
    /\ input = None
    /\ tfLog = << >>
    /\ effects = {}
    /\ EngineIdle
    /\ MonitorIdle
    /\ call = NoCall

(***************************************************************************)
(* The three reconciliation entry points: the cleanup functions each one   *)
(* calls, in the order of the calls.                                       *)
(***************************************************************************)
\* The pre-destroy pass with the Octavia ports before the load balancers.
cleanup_before_destroy_PortsFirst == <<"octavia_ports", "lbs">>

cleanup_before_destroy == <<"lbs", "octavia_ports">>

\* The post-destroy pass with the security groups first.
cleanup_after_destroy_SgsFirst == <<"sgs", "fips", "lb_ports">>

\* The post-destroy pass with the load-balancer ports before the floating IPs.
cleanup_after_destroy_PortsFirst == <<"lb_ports", "fips", "sgs">>

cleanup_after_destroy == <<"fips", "lb_ports", "sgs">>

cleanup_orphaned_resources(net) ==
    IF IsSome(net) THEN <<"fips", "lb_ports", "lbs", "net_ports">>
    ELSE <<"fips", "lb_ports">>

StepsOf(e) ==
    CASE e = "before" -> cleanup_before_destroy
      [] e = "after"  -> cleanup_after_destroy
      [] e = "orphaned" -> cleanup_orphaned_resources(network_id)

FirstPhase(s) == IF s = "octavia_ports" THEN "relist" ELSE "list"

\* The call of an entry point: its first cleanup function starts.
Enter(e) ==
    /\ entry' = e
    /\ step' = StepsOf(e)[1]
    /\ phase' = FirstPhase(StepsOf(e)[1])
    /\ FreshStep

\* A kind of DELETE joins the history unless it continues a block of its kind.
AppendKind(o, k) == IF o # << >> /\ o[Len(o)] = k THEN o ELSE Append(o, k)

(***************************************************************************)
(* The list request of a cleanup function.  `kind` is what became of it:   *)
(* "transport_error" (send() failed: `?` returns the error), "non_2xx"     *)
(* (warning, return Ok), "unparseable" (json() failed: `?` returns the     *)
(* error) or "ok" (the body parsed to the list l); cands is the filtered   *)
(* list.  An empty filtered list returns Ok at once.                       *)
(***************************************************************************)
ListKinds == {"transport_error", "non_2xx", "unparseable", "ok"}

AfterList(kind, l, cands) ==
    /\ listStatus' = kind
    /\ listed' = IF kind = "ok" THEN l ELSE << >>
    /\ candidates' = IF kind = "ok" THEN cands ELSE << >>
    /\ idx' = 1
    /\ deleted_count' = 0
    /\ failed_count' = 0
    /\ reqs' = << >>
    /\ outcomes' = << >>
    /\ IF kind = "ok" /\ cands # << >>
       THEN phase' = "loop" /\ stepResult' = "none"
       ELSE /\ phase' = "end"
            /\ stepResult' = IF kind \in {"transport_error", "unparseable"} THEN "Err" ELSE "Ok"
    /\ effects' = effects \cup {"cleanup"}
    /\ UNCHANGED <<cmd, auto_confirm, has_openstack, tf_dir_exists, pc, result,
                   network_id, cluster_name, prompt, input, confirmed, tfLog>>
    /\ UNCHANGED <<entry, step, order, terraform_lb_ids, tfOwnedIds, elapsed, lastPoll,
                   lastDelete>>

\* The bodies a list response of kind `kind` can carry.
Bodies(kind, lists) == IF kind = "ok" THEN lists ELSE {<< >>}

cleanup_loadbalancers_list ==
    /\ step = "lbs" /\ phase = "list"
    /\ \E kind \in ListKinds : \E l \in Bodies(kind, LbLists) :
           AfterList(kind, l, network_lbs(l, Unwrap(network_id)))
    /\ UNCHANGED <<monVars, call>>

cleanup_floating_ips_list ==
    /\ step = "fips" /\ phase = "list"
    /\ \E kind \in ListKinds : \E l \in Bodies(kind, FipLists) :
           AfterList(kind, l, orphaned_fips(l))
    /\ UNCHANGED <<monVars, call>>

cleanup_loadbalancer_ports_list ==
    /\ step = "lb_ports" /\ phase = "list"
    /\ \E kind \in ListKinds : \E l \in Bodies(kind, PortLists) :
           AfterList(kind, l, lb_ports(l))
    /\ UNCHANGED <<monVars, call>>

cleanup_network_ports_list ==
    /\ step = "net_ports" /\ phase = "list"
    /\ \E kind \in ListKinds : \E l \in Bodies(kind, PortLists) :
           AfterList(kind, l, orphaned_ports(l))
    /\ UNCHANGED <<monVars, call>>

cleanup_security_groups_list ==
    /\ step = "sgs" /\ phase = "list"
    /\ \E kind \in ListKinds : \E l \in Bodies(kind, SgLists) :
           AfterList(kind, l, orphaned_sgs(l, Unwrap(cluster_name)))
    /\ UNCHANGED <<monVars, call>>

\* cleanup_octavia_ports: the load-balancer re-list.  `world` is the list of
\* the load balancers that exist; a 2xx response whose body parses carries it.
\* A transport error returns the error; a non-2xx status or an unparseable
\* body leaves terraform_lb_ids empty and the function goes on.
cleanup_octavia_ports_relist ==
    /\ step = "octavia_ports" /\ phase = "relist"
    /\ \E kind \in ListKinds, world \in LbLists :
        /\ tfOwnedIds' = { world[i].id : i \in { j \in DOMAIN world :
                              /\ world[j].vip_network_id = Unwrap(network_id)
                              /\ EndsWith(world[j].name, "-lb") } }
        /\ terraform_lb_ids' =
              IF kind = "ok" THEN TerraformLbIds(world, Unwrap(network_id)) ELSE {}
        /\ listStatus' = kind
        /\ IF kind = "transport_error"
           THEN phase' = "end" /\ stepResult' = "Err"
           ELSE phase' = "list" /\ stepResult' = "none"
    /\ effects' = effects \cup {"cleanup"}
    /\ UNCHANGED <<cmd, auto_confirm, has_openstack, tf_dir_exists, pc, result,
                   network_id, cluster_name, prompt, input, confirmed, tfLog>>
    /\ UNCHANGED <<entry, step, order, listed, candidates, idx, deleted_count, failed_count,
                   elapsed, reqs, outcomes, lastPoll, lastDelete>>
    /\ UNCHANGED <<monVars, call>>

cleanup_octavia_ports_list ==
    /\ step = "octavia_ports" /\ phase = "list"
    /\ \E kind \in ListKinds : \E l \in Bodies(kind, PortLists) :
           AfterList(kind, l, octavia_ports(l, terraform_lb_ids))
    /\ UNCHANGED <<monVars, call>>

(***************************************************************************)
(* One iteration of the delete loop of a cleanup function other than       *)
(* cleanup_loadbalancers: the DELETE of candidates[idx] and the match on   *)
(* its response.                                                           *)
(***************************************************************************)
Counted(outcome) ==
    /\ outcomes' = Append(outcomes, outcome)
    /\ deleted_count' = IF outcome = "deleted" THEN deleted_count + 1 ELSE deleted_count
    /\ failed_count' = IF outcome # "deleted" THEN failed_count + 1 ELSE failed_count
    /\ idx' = LoopNext(idx, outcome, Len(candidates))
    /\ IF LoopNext(idx, outcome, Len(candidates)) > Len(candidates)
       THEN phase' = "end" /\ stepResult' = "Ok"
       ELSE phase' = "loop" /\ stepResult' = "none"

DeleteCandidate ==
    /\ phase = "loop"
    /\ idx <= Len(candidates)
    /\ \E resp \in Responses : lastDelete' = resp /\ Counted(DeleteOutcome(step, resp))
    /\ reqs' = Append(reqs, candidates[idx])
    /\ order' = AppendKind(order, step)
    /\ UNCHANGED <<cmdVars, entry, step, listStatus, listed, candidates, terraform_lb_ids,
                   tfOwnedIds, elapsed, lastPoll>>

cleanup_floating_ips_delete == step = "fips" /\ DeleteCandidate /\ UNCHANGED <<monVars, call>>

cleanup_loadbalancer_ports_delete == step = "lb_ports" /\ DeleteCandidate /\ UNCHANGED <<monVars, call>>

cleanup_network_ports_delete == step = "net_ports" /\ DeleteCandidate /\ UNCHANGED <<monVars, call>>

cleanup_octavia_ports_delete == step = "octavia_ports" /\ DeleteCandidate /\ UNCHANGED <<monVars, call>>

cleanup_security_groups_delete == step = "sgs" /\ DeleteCandidate /\ UNCHANGED <<monVars, call>>

(***************************************************************************)
(* cleanup_loadbalancers: the cascade DELETE of candidates[idx].  An       *)
(* accepted delete (2xx or 404) enters wait_for_lb_deletion, whose clock   *)
(* starts at 0; any other response or a transport error counts as failed.  *)
(***************************************************************************)
cleanup_loadbalancers_delete ==
    /\ step = "lbs" /\ phase = "loop"
    /\ idx <= Len(candidates)
    /\ reqs' = Append(reqs, candidates[idx])
    /\ order' = AppendKind(order, step)
    /\ lastPoll' = NoPoll
    /\ elapsed' = 0
    /\ \E resp \in Responses :
          /\ lastDelete' = resp
          /\ IF DeleteAccepted(resp)
             THEN /\ phase' = "poll"
                  /\ UNCHANGED <<outcomes, deleted_count, failed_count, idx, stepResult>>
             ELSE Counted("failed")
    /\ UNCHANGED <<cmdVars, entry, step, listStatus, listed, candidates, terraform_lb_ids,
                   tfOwnedIds>>
    /\ UNCHANGED <<monVars, call>>

\* A wait_for_lb_deletion that takes `start` inside its loop: every iteration
\* measures the elapsed time anew.
wait_for_lb_deletion_ClockRestarts ==
    /\ step = "lbs" /\ phase = "poll"
    /\ IF PollTimedOut(elapsed, LbDeletionTimeoutSecs)
       THEN /\ Counted("timeout")
            /\ UNCHANGED <<elapsed, lastPoll>>
       ELSE \E resp \in PollResponses :
              /\ lastPoll' = resp
              /\ IF PollIsTerminal(resp)
                 THEN Counted("deleted") /\ UNCHANGED elapsed
                 ELSE /\ elapsed' = 0
                      /\ UNCHANGED <<outcomes, deleted_count, failed_count, idx, phase,
                                     stepResult>>
    /\ lastDelete' = NoDelete
    /\ UNCHANGED <<cmdVars, entry, step, order, listStatus, listed, candidates,
                   terraform_lb_ids, tfOwnedIds, reqs>>
    /\ UNCHANGED <<monVars, call>>

(***************************************************************************)
(* wait_for_lb_deletion(lb.id, 120): one iteration of its loop, and, when  *)
(* it returns, the caller's count of the load balancer.  The timeout is    *)
(* checked first; otherwise a status GET is sent, and either its response  *)
(* ends the poll with Ok or the thread sleeps 5 s.  The request itself     *)
(* takes `latency` seconds.                                                *)
(***************************************************************************)
wait_for_lb_deletion ==
    /\ step = "lbs" /\ phase = "poll"
    /\ IF PollTimedOut(elapsed, LbDeletionTimeoutSecs)
       THEN /\ Counted("timeout")
            /\ UNCHANGED <<elapsed, lastPoll>>
       ELSE \E resp \in PollResponses :
              /\ lastPoll' = resp
              /\ IF PollIsTerminal(resp)
                 THEN Counted("deleted") /\ UNCHANGED elapsed
                 ELSE /\ \E latency \in Latencies :
                            elapsed' = elapsed + latency + LbPollIntervalSecs
                      /\ UNCHANGED <<outcomes, deleted_count, failed_count, idx, phase,
                                     stepResult>>
    /\ lastDelete' = NoDelete
    /\ UNCHANGED <<cmdVars, entry, step, order, listStatus, listed, candidates,
                   terraform_lb_ids, tfOwnedIds, reqs>>
    /\ UNCHANGED <<monVars, call>>

(***************************************************************************)
(* The return of a cleanup function into its entry point (`?`: an error    *)
(* returns from the entry point, Ok calls the next cleanup function), and  *)
(* the return of the entry point into the command.                         *)
(***************************************************************************)
StepIndex(ss, s) == CHOOSE k \in DOMAIN ss : ss[k] = s

\* What the caller does with the value an entry point returns.
EntryReturn(res) ==
    /\ entry' = "none" /\ step' = "none" /\ phase' = "none"
    /\ FreshStep
    /\ CASE entry = "before" ->
              \* cmd_destroy: Ok goes on, Err asks the operator
              /\ pc' = IF res = "Ok" THEN "state_rm" ELSE "pre_prompt_cleanup"
              /\ UNCHANGED result
         [] entry = "after" ->
              \* cmd_destroy: an error is only warned about; "Cluster destroyed!"
              /\ pc' = "done"
              /\ result' = "Ok"
         [] OTHER ->
              \* cleanup_orphaned_resources called directly
              /\ pc' = "done"
              /\ result' = res

step_return ==
    /\ phase = "end"
    /\ LET ss == StepsOf(entry)
           k == StepIndex(ss, step)
       IN  IF stepResult = "Err" THEN EntryReturn("Err")
           ELSE IF k < Len(ss)
                THEN /\ step' = ss[k + 1]
                     /\ phase' = FirstPhase(ss[k + 1])
                     /\ FreshStep
                     /\ UNCHANGED <<entry, pc, result>>
                ELSE EntryReturn("Ok")
    /\ UNCHANGED <<cmd, auto_confirm, has_openstack, tf_dir_exists,
                   network_id, cluster_name, prompt, input, confirmed, tfLog, effects, order>>
    /\ UNCHANGED <<monVars, call>>

(***************************************************************************)
(* The commands.                                                           *)
(***************************************************************************)
\* The lines that answer a (y/N) prompt with yes.
YesLines == {"y\n", "Y\n", " y \n"}

\* A call of confirm_action inside `if !confirm_action(..)? { return Ok(()) }`:
\* an I/O error on stdout or stdin returns the error, an answer of false
\* returns Ok(()) ("cancelled"), an answer of true goes on at yesPc.
Confirm(name, default_yes, yesPc) ==
    /\ prompt' = Some(name)
    /\ \E io_ok \in BOOLEAN, line \in Inputs :
          /\ confirmed' = (confirmed \/ (pc = "start" /\ io_ok /\ line \in YesLines))
          /\ IF ~io_ok
             THEN input' = None /\ pc' = "done" /\ result' = "Err"
             ELSE /\ input' = Some(line)
                  /\ IF confirm_action(line, default_yes)
                     THEN pc' = yesPc /\ UNCHANGED result
                     ELSE pc' = "done" /\ result' = "Ok"

\* The command has moved on from its last prompt.
NoPrompt == prompt' = None /\ input' = None /\ UNCHANGED confirmed

\* run_terraform_command / get_terraform_outputs: ensure_terraform_initialized
\* spawns `terraform init` when .terraform is missing and bails when that
\* fails; then the subcommand is spawned, and a spawn error or a non-zero
\* exit status is an error.
TfOutcomes == {"ok", "failed", "init_failed"}

RunTerraform(name, out) ==
    /\ (out = "init_failed" => ~tf_dir_exists)
    /\ tfLog' = IF out = "init_failed" THEN tfLog ELSE Append(tfLog, name)
    /\ IF out = "init_failed" THEN tf_dir_exists' \in BOOLEAN
       ELSE IF ~tf_dir_exists THEN tf_dir_exists' = TRUE
       ELSE UNCHANGED tf_dir_exists
    /\ effects' = effects \cup {"terraform"}

deploy_confirm ==
    /\ cmd = "deploy" /\ pc = "start"
    /\ IF auto_confirm
       THEN pc' = "apply" /\ UNCHANGED <<prompt, input, confirmed, result>>
       ELSE Confirm("deploy", FALSE, "apply")
    /\ UNCHANGED <<cmd, auto_confirm, has_openstack, tf_dir_exists,
                   network_id, cluster_name, tfLog, effects, engineVars>>
    /\ UNCHANGED <<monVars, call>>

deploy_apply ==
    /\ cmd = "deploy" /\ pc = "apply"
    /\ \E out \in TfOutcomes :
          /\ RunTerraform("apply", out)
          /\ IF out # "ok" THEN pc' = "done" /\ result' = "Err"
             ELSE pc' = "monitor_prompt" /\ UNCHANGED result
    /\ NoPrompt
    /\ UNCHANGED <<cmd, auto_confirm, has_openstack, network_id, cluster_name, engineVars>>
    /\ UNCHANGED <<monVars, call>>

\* should_monitor, and cmd_monitor, whose outcome is all that matters here.
deploy_monitor ==
    /\ cmd = "deploy" /\ pc = "monitor_prompt"
    /\ IF auto_confirm
       THEN pc' = "done" /\ result' = "Ok" /\ UNCHANGED <<prompt, input>>
       ELSE /\ prompt' = Some("monitor")
            /\ \E io_ok \in BOOLEAN, line \in Inputs, monitor_ok \in BOOLEAN :
                  /\ input' = IF io_ok THEN Some(line) ELSE None
                  /\ pc' = "done"
                  /\ result' = IF ~io_ok THEN "Err"
                               ELSE IF confirm_action(line, TRUE) /\ ~monitor_ok THEN "Err"
                               ELSE "Ok"
    /\ UNCHANGED <<cmd, auto_confirm, has_openstack, tf_dir_exists, confirmed,
                   network_id, cluster_name, tfLog, effects, engineVars>>
    /\ UNCHANGED <<monVars, call>>

destroy_confirm ==
    /\ cmd = "destroy" /\ pc = "start"
    /\ IF auto_confirm
       THEN pc' = "tailscale" /\ UNCHANGED <<prompt, input, confirmed, result>>
       ELSE Confirm("destroy", FALSE, "tailscale")
    /\ UNCHANGED <<cmd, auto_confirm, has_openstack, tf_dir_exists,
                   network_id, cluster_name, tfLog, effects, engineVars>>
    /\ UNCHANGED <<monVars, call>>

\* Step 1, with config.tailscale set or not: verify_tailscale_connection and,
\* when it succeeds, cleanup_devices_by_tag (requests to the Tailscale API),
\* whose error is only warned about.
destroy_tailscale ==
    /\ cmd = "destroy" /\ pc = "tailscale"
    /\ \E has_tailscale \in BOOLEAN, verified \in BOOLEAN :
          IF ~has_tailscale
          THEN pc' = "outputs" /\ UNCHANGED effects
          ELSE IF verified
               THEN pc' = "outputs" /\ effects' = effects \cup {"cleanup"}
               ELSE /\ pc' = IF auto_confirm THEN "outputs" ELSE "tailscale_prompt"
                    /\ UNCHANGED effects
    /\ NoPrompt
    /\ UNCHANGED <<cmd, auto_confirm, has_openstack, tf_dir_exists, result,
                   network_id, cluster_name, tfLog, engineVars>>
    /\ UNCHANGED <<monVars, call>>

destroy_tailscale_prompt ==
    /\ cmd = "destroy" /\ pc = "tailscale_prompt"
    /\ Confirm("tailscale", FALSE, "outputs")
    /\ UNCHANGED <<cmd, auto_confirm, has_openstack, tf_dir_exists,
                   network_id, cluster_name, tfLog, effects, engineVars>>
    /\ UNCHANGED <<monVars, call>>

\* Step 2: get_terraform_outputs(..).ok() and the two values read from it.
destroy_outputs ==
    /\ cmd = "destroy" /\ pc = "outputs"
    /\ \E out \in TfOutcomes, net \in {None, Some(TargetNetwork)},
          cl \in {None, Some(ClusterName)} :
          /\ RunTerraform("output", out)
          /\ network_id' = IF out = "ok" THEN net ELSE None
          /\ cluster_name' = IF out = "ok" THEN cl ELSE None
    /\ pc' = "pre"
    /\ NoPrompt
    /\ UNCHANGED <<cmd, auto_confirm, has_openstack, result, engineVars>>
    /\ UNCHANGED <<monVars, call>>

\* OpenStackClient::new: the token request succeeds and yields a client, or
\* the constructor returns an error.
AuthOutcomes == {"client", "auth_error"}

\* Step 3 (printed as step 2): the pre-destroy cleanup, run only with
\* credentials, a network id and a cluster name.
destroy_pre ==
    /\ cmd = "destroy" /\ pc = "pre"
    /\ IF has_openstack /\ IsSome(network_id) /\ IsSome(cluster_name)
       THEN /\ effects' = effects \cup {"cleanup"}
            /\ \E auth \in AuthOutcomes :
                  IF auth = "client"
                  THEN pc' = "pre_cleanup" /\ Enter("before")
                  ELSE pc' = "pre_prompt_auth" /\ UNCHANGED <<entry, step, phase, stepVars>>
       ELSE /\ pc' = "state_rm"
            /\ UNCHANGED <<effects, entry, step, phase, stepVars>>
    /\ NoPrompt
    /\ UNCHANGED <<cmd, auto_confirm, has_openstack, tf_dir_exists, result,
                   network_id, cluster_name, tfLog, order>>
    /\ UNCHANGED <<monVars, call>>

\* The two "Continue anyway?" prompts of step 3: after a failed
\* authentication and after an error of cleanup_before_destroy.
destroy_pre_prompt ==
    /\ cmd = "destroy" /\ pc \in {"pre_prompt_auth", "pre_prompt_cleanup"}
    /\ Confirm(pc, FALSE, "state_rm")
    /\ UNCHANGED <<cmd, auto_confirm, has_openstack, tf_dir_exists,
                   network_id, cluster_name, tfLog, effects, engineVars>>
    /\ UNCHANGED <<monVars, call>>

\* A step 4 that returns the error of terraform state rm with `?`.
destroy_state_rm_Propagates ==
    /\ cmd = "destroy" /\ pc = "state_rm"
    /\ \E out \in TfOutcomes :
          /\ RunTerraform("state rm", out)
          /\ IF out = "ok" THEN pc' = "destroy" /\ UNCHANGED result
             ELSE pc' = "done" /\ result' = "Err"
    /\ NoPrompt
    /\ UNCHANGED <<cmd, auto_confirm, has_openstack, network_id,
                   cluster_name, engineVars>>
    /\ UNCHANGED <<monVars, call>>

\* Step 4 (printed as step 3): terraform state rm of the backup container;
\* its error is printed as a note.
destroy_state_rm ==
    /\ cmd = "destroy" /\ pc = "state_rm"
    /\ \E out \in TfOutcomes : RunTerraform("state rm", out)
    /\ pc' = "destroy"
    /\ NoPrompt
    /\ UNCHANGED <<cmd, auto_confirm, has_openstack, result, network_id,
                   cluster_name, engineVars>>
    /\ UNCHANGED <<monVars, call>>

\* terraform destroy whose error is only noted, the command going on to the
\* post-destroy cleanup.
destroy_terraform_ErrorNoted ==
    /\ cmd = "destroy" /\ pc = "destroy"
    /\ \E out \in TfOutcomes : RunTerraform("destroy", out)
    /\ pc' = "post" /\ UNCHANGED result
    /\ NoPrompt
    /\ UNCHANGED <<cmd, auto_confirm, has_openstack, network_id, cluster_name, engineVars>>
    /\ UNCHANGED <<monVars, call>>

\* Step 5 (printed as step 4): terraform destroy; `?` returns its error.
destroy_terraform ==
    /\ cmd = "destroy" /\ pc = "destroy"
    /\ \E out \in TfOutcomes :
          /\ RunTerraform("destroy", out)
          /\ IF out = "ok" THEN pc' = "post" /\ UNCHANGED result
             ELSE pc' = "done" /\ result' = "Err"
    /\ NoPrompt
    /\ UNCHANGED <<cmd, auto_confirm, has_openstack, network_id, cluster_name, engineVars>>
    /\ UNCHANGED <<monVars, call>>

\* A step 6 that, like step 3, also asks for the network id.
destroy_post_NeedsNetwork ==
    /\ cmd = "destroy" /\ pc = "post"
    /\ IF has_openstack /\ IsSome(network_id) /\ IsSome(cluster_name)
       THEN /\ effects' = effects \cup {"cleanup"}
            /\ \E auth \in AuthOutcomes :
                  IF auth = "client"
                  THEN pc' = "post_cleanup" /\ Enter("after") /\ UNCHANGED result
                  ELSE /\ pc' = "done" /\ result' = "Ok"
                       /\ UNCHANGED <<entry, step, phase, stepVars>>
       ELSE /\ pc' = "done" /\ result' = "Ok"
            /\ UNCHANGED <<effects, entry, step, phase, stepVars>>
    /\ NoPrompt
    /\ UNCHANGED <<cmd, auto_confirm, has_openstack, tf_dir_exists,
                   network_id, cluster_name, tfLog, order>>
    /\ UNCHANGED <<monVars, call>>

\* Step 6 (printed as step 5): the post-destroy cleanup, run only with
\* credentials and a cluster name; a failed authentication is warned about.
destroy_post ==
    /\ cmd = "destroy" /\ pc = "post"
    /\ IF has_openstack /\ IsSome(cluster_name)
       THEN /\ effects' = effects \cup {"cleanup"}
            /\ \E auth \in AuthOutcomes :
                  IF auth = "client"
                  THEN pc' = "post_cleanup" /\ Enter("after") /\ UNCHANGED result
                  ELSE /\ pc' = "done" /\ result' = "Ok"
                       /\ UNCHANGED <<entry, step, phase, stepVars>>
       ELSE /\ pc' = "done" /\ result' = "Ok"
            /\ UNCHANGED <<effects, entry, step, phase, stepVars>>
    /\ NoPrompt
    /\ UNCHANGED <<cmd, auto_confirm, has_openstack, tf_dir_exists,
                   network_id, cluster_name, tfLog, order>>
    /\ UNCHANGED <<monVars, call>>

\* A direct call of the public cleanup_orphaned_resources(network_id).
orphans_start ==
    /\ cmd = "orphans" /\ pc = "start"
    /\ pc' = "cleanup"
    /\ Enter("orphaned")
    /\ UNCHANGED <<cmd, auto_confirm, has_openstack, tf_dir_exists, result,
                   network_id, cluster_name, prompt, input, confirmed, tfLog, effects, order>>
    /\ UNCHANGED <<monVars, call>>

Next ==
    \/ deploy_confirm
    \/ deploy_apply
    \/ deploy_monitor
    \/ destroy_confirm
    \/ destroy_tailscale
    \/ destroy_tailscale_prompt
    \/ destroy_outputs
    \/ destroy_pre
    \/ destroy_pre_prompt
    \/ destroy_state_rm
    \/ destroy_terraform
    \/ destroy_post
    \/ orphans_start
    \/ cleanup_loadbalancers_list
    \/ cleanup_loadbalancers_delete
    \/ wait_for_lb_deletion
    \/ cleanup_octavia_ports_relist
    \/ cleanup_octavia_ports_list
    \/ cleanup_octavia_ports_delete
    \/ cleanup_floating_ips_list
    \/ cleanup_floating_ips_delete
    \/ cleanup_loadbalancer_ports_list
    \/ cleanup_loadbalancer_ports_delete
    \/ cleanup_network_ports_list
    \/ cleanup_network_ports_delete
    \/ cleanup_security_groups_list
    \/ cleanup_security_groups_delete
    \/ step_return

Spec == Init /\ [][Next]_vars

\* The commands are sequential programs and every request they send returns,
\* with a response or with an error: a command that has a step to take takes it.
SpecFair == Spec /\ WF_vars(Next)

(***************************************************************************)
(* cmd_monitor, from its first poll on: the terraform outputs have been    *)
(* read, the expected node count is positive, and the two feature flags    *)
(* and the connection to server 0 are fixed.  Every loop iteration sleeps  *)
(* CheckIntervalSecs; no loop has a timeout.                               *)
(***************************************************************************)
CheckIntervalSecs == 10

MonitorInit ==
    /\ cmd = "monitor"
    /\ auto_confirm = FALSE
    /\ has_openstack = FALSE
    /\ tf_dir_exists = TRUE
    /\ pc = "nodes"
    /\ result = "none"
    /\ network_id = None
    /\ cluster_name = None
    /\ prompt = None
    /\ confirmed = FALSE
    /\ input = None
    /\ tfLog = <<"output">>
    /\ effects = {"terraform"}
    /\ EngineIdle
    /\ gpu_enabled \in BOOLEAN
    /\ argocd_enabled \in BOOLEAN
    /\ expected_nodes \in 1..MaxNodes
    /\ connection \in {"tailscale", "bastion", "none"}
    /\ now = 0
    /\ nodes_ready_time = None
    /\ gpu_install_start = None
    /\ gpu_install_complete = None
    /\ argocd_install_start = None
    /\ argocd_install_complete = None
    /\ argocd_tailscale_start = None
    /\ argocd_tailscale_complete = None
    /\ polls = 0
    /\ polled = {}
    /\ observed = NoObservation
    /\ call = NoCall

\* `<phase>_start = Some(Instant::now())` on entry to an install phase.
StartPhase(next) ==
    /\ gpu_install_start' = IF next = "gpu" THEN Some(now') ELSE gpu_install_start
    /\ argocd_install_start' = IF next = "argocd" THEN Some(now') ELSE argocd_install_start
    /\ argocd_tailscale_start' = IF next = "serve" THEN Some(now') ELSE argocd_tailscale_start

\* `<phase>_complete = Some(<phase>_start.unwrap().elapsed())`.
CompletePhase(ph) ==
    /\ gpu_install_complete' =
          IF ph = "gpu" THEN Some(now' - Unwrap(gpu_install_start)) ELSE gpu_install_complete
    /\ argocd_install_complete' =
          IF ph = "argocd" THEN Some(now' - Unwrap(argocd_install_start))
          ELSE argocd_install_complete
    /\ argocd_tailscale_complete' =
          IF ph = "serve" THEN Some(now' - Unwrap(argocd_tailscale_start))
          ELSE argocd_tailscale_complete

MonitorFrame == UNCHANGED <<cmd, auto_confirm, has_openstack, tf_dir_exists, network_id,
                            cluster_name, prompt, input, confirmed, tfLog, effects,
                            engineVars, gpu_enabled, argocd_enabled, expected_nodes,
                            connection, call>>

\* The bail! of an iteration that has neither a Tailscale hostname nor a
\* bastion ip to build its ssh command from.
NoConnection ==
    /\ pc' = "done" /\ result' = "Err"
    /\ UNCHANGED <<now, nodes_ready_time, gpu_install_start, gpu_install_complete,
                   argocd_install_start, argocd_install_complete, argocd_tailscale_start,
                   argocd_tailscale_complete, polls, polled, observed>>

\* A phase 1 that gives up once elapsed exceeds NODE_READY_TIMEOUT_SECS.
monitor_nodes_Timeout ==
    /\ cmd = "monitor" /\ pc = "nodes"
    /\ IF connection = "none" THEN NoConnection
       ELSE /\ polls' = polls + 1
            /\ polled' = polled \cup {"nodes"}
            /\ observed' \in (CHOOSE p \in ObservationsOf.nodes : p[1] = expected_nodes)[2]
            /\ LET obs == observed' IN
                  /\ LET r == NodesStep(obs, expected_nodes)
                         next == NextPhase("nodes", gpu_enabled, argocd_enabled)
                     IN  IF r = "wait" /\ now > NodeReadyTimeoutSecs
                         THEN /\ pc' = "done" /\ result' = "Err"
                              /\ UNCHANGED <<now, nodes_ready_time, gpu_install_start,
                                             argocd_install_start, argocd_tailscale_start>>
                         ELSE IF r = "wait"
                         THEN /\ polls < MaxChecks
                              /\ \E secs \in CommandSecs(obs.cmd, now) :
                                    now' = now + secs + CheckIntervalSecs
                              /\ UNCHANGED <<pc, result, nodes_ready_time, gpu_install_start,
                                             argocd_install_start, argocd_tailscale_start>>
                         ELSE /\ nodes_ready_time' = Some(now)
                              /\ now' = now
                              /\ IF r = "complete"
                                 THEN pc' = next /\ StartPhase(next) /\ UNCHANGED result
                                 ELSE /\ pc' = "done" /\ result' = "Err"
                                      /\ UNCHANGED <<gpu_install_start, argocd_install_start,
                                                     argocd_tailscale_start>>
            /\ UNCHANGED <<gpu_install_complete, argocd_install_complete,
                           argocd_tailscale_complete>>
    /\ MonitorFrame

\* Phase 1, one iteration of the loop: elapsed is read, kubectl get nodes is
\* run, and the iteration breaks, returns an error, or sleeps.
monitor_nodes ==
    /\ cmd = "monitor" /\ pc = "nodes"
    /\ IF connection = "none" THEN NoConnection
       ELSE /\ polls' = polls + 1
            /\ polled' = polled \cup {"nodes"}
            /\ observed' \in (CHOOSE p \in ObservationsOf.nodes : p[1] = expected_nodes)[2]
            /\ LET obs == observed' IN
                  /\ LET r == NodesStep(obs, expected_nodes)
                         next == NextPhase("nodes", gpu_enabled, argocd_enabled)
                     IN  IF r = "wait"
                         THEN /\ polls < MaxChecks
                              /\ \E secs \in CommandSecs(obs.cmd, now) :
                                    now' = now + secs + CheckIntervalSecs
                              /\ UNCHANGED <<pc, result, nodes_ready_time, gpu_install_start,
                                             argocd_install_start, argocd_tailscale_start>>
                         ELSE /\ nodes_ready_time' = Some(now)
                              /\ now' = now
                              /\ IF r = "complete"
                                 THEN pc' = next /\ StartPhase(next) /\ UNCHANGED result
                                 ELSE /\ pc' = "done" /\ result' = "Err"
                                      /\ UNCHANGED <<gpu_install_start, argocd_install_start,
                                                     argocd_tailscale_start>>
            /\ UNCHANGED <<gpu_install_complete, argocd_install_complete,
                           argocd_tailscale_complete>>
    /\ MonitorFrame

\* Phases 2 to 4, one iteration of the loop: the sleep, k3s-server.log, then
\* the phase's install log.
MonitorInstall(ph) ==
    /\ cmd = "monitor" /\ pc = ph
    /\ IF connection = "none" THEN NoConnection
       ELSE /\ polls' = polls + 1
            /\ polled' = polled \cup {ph}
            /\ now' = now + CheckIntervalSecs
            /\ observed' \in ObservationsOf[ph]
            /\ LET obs == observed' IN
                  /\ LET r == InstallStep(ph, obs)
                         next == NextPhase(ph, gpu_enabled, argocd_enabled)
                     IN  CASE r = "wait" ->
                                /\ polls < MaxChecks
                                /\ UNCHANGED <<pc, result, gpu_install_start,
                                               gpu_install_complete, argocd_install_start,
                                               argocd_install_complete, argocd_tailscale_start,
                                               argocd_tailscale_complete>>
                           [] r = "complete" ->
                                /\ CompletePhase(ph)
                                /\ pc' = next /\ StartPhase(next)
                                /\ UNCHANGED result
                           [] OTHER ->
                                /\ pc' = "done" /\ result' = "Err"
                                /\ UNCHANGED <<gpu_install_start, gpu_install_complete,
                                               argocd_install_start, argocd_install_complete,
                                               argocd_tailscale_start, argocd_tailscale_complete>>
            /\ UNCHANGED nodes_ready_time
    /\ MonitorFrame

monitor_gpu == pc = "gpu" /\ MonitorInstall("gpu")

monitor_argocd == pc = "argocd" /\ MonitorInstall("argocd")

monitor_serve == pc = "serve" /\ MonitorInstall("serve")

\* The final summary, and Ok(()).
monitor_summary ==
    /\ cmd = "monitor" /\ pc = "summary"
    /\ pc' = "done" /\ result' = "Ok"
    /\ UNCHANGED <<now, nodes_ready_time, gpu_install_start, gpu_install_complete,
                   argocd_install_start, argocd_install_complete, argocd_tailscale_start,
                   argocd_tailscale_complete, polls, polled, observed>>
    /\ MonitorFrame

MonitorNext ==
    \/ monitor_nodes
    \/ monitor_gpu
    \/ monitor_argocd
    \/ monitor_serve
    \/ monitor_summary

SpecMonitor == MonitorInit /\ [][MonitorNext]_vars

\* cmd_monitor is a sequential program: while it has a step to take, it
\* takes one.
SpecMonitorFair == SpecMonitor /\ WF_vars(MonitorNext)

(***************************************************************************)
(* Functions called on their own, each with arguments drawn from the       *)
(* values its callers can pass: the call is made, and it returns.          *)
(***************************************************************************)
Calls(fn) ==
    CASE fn = "from_server" ->
        { [fn |-> "from_server", args |-> [server |-> sv, bastion_ip |-> b], ret |-> Pending] :
            sv \in ServerInfos, b \in {None, Some("1.2.3.4"), Some("10.0.0.10")} }
      [] fn = "extract_cloud_providers" ->
        { [fn |-> "extract_cloud_providers", args |-> [outputs |-> o], ret |-> Pending] :
            o \in TopologyOutputs }
      [] fn = "cmd_monitor" ->
        { [fn |-> "cmd_monitor",
           args |-> [outputs |-> [topology |-> o, all_server_ips |-> s, all_agent_ips |-> a]],
           ret |-> Pending] :
            o \in { t \in TopologyOutputs : /\ t.openstack_servers = None
                                            /\ t.openstack_agents = None
                                            /\ t.bastion_ip = None },
            s \in {None} \cup { Some([i \in 1..n |-> JStr("10.0.1.1" \o IndexString(i - 1))]) :
                                  n \in 0..MaxIps },
            a \in {None} \cup { Some([i \in 1..n |-> JStr("10.0.2.1" \o IndexString(i - 1))]) :
                                  n \in 0..MaxIps } }
      [] fn = "cmd_ssh" ->
        { [fn |-> "cmd_ssh", args |-> [outputs |-> o, selected |-> i], ret |-> Pending] :
            o \in { t \in TopologyOutputs : /\ t.agent_ips = None
                                            /\ t.openstack_agents = None
                                            /\ t.server_ips # None },
            i \in 0..(MaxIps - 1) }
      [] fn = "rewrite_kubeconfig" ->
        { [fn |-> "rewrite_kubeconfig", args |-> [kubeconfig |-> k, lb_floating_ip |-> ip],
           ret |-> Pending] :
            k \in { "",
                    "clusters: []\n",
                    "- cluster:\n    server: https://10.0.0.5:6443\n  name: default\n",
                    "    server: https://10.0.0.5:443\n",
                    "    server: http://10.0.0.5:6443\n",
                    "server: https://:6443",
                    "server: https://k3s.example\nproxy-url: http://proxy:6443\n",
                    "port :6443\nserver: https://10.0.0.5:6443\n",
                    "server: https://10.0.0.5:6443\n---\nserver: https://10.0.0.6:6443\n" },
            ip \in {"5.6.7.8", "10.0.0.5", ""} }
      [] fn = "lb_floating_ip" ->
        { [fn |-> "lb_floating_ip",
           args |-> [outputs |-> [primary_api_endpoint |-> e, loadbalancer_ip |-> lb]],
           ret |-> Pending] :
            e \in {None, Some(""), Some("5.6.7.8"), Some("https://5.6.7.8"),
                   Some("http://5.6.7.8:6443"), Some("https://5.6.7.8:443"),
                   Some("https://https://5.6.7.8:6443:6443")}
                  \cup { Some("https://" \o ip \o ":6443") : ip \in Addresses },
            lb \in {None, Some("5.6.7.8"), Some("9.9.9.9")} }
      [] fn = "OpenStackClient_new" ->
        { [fn |-> "OpenStackClient_new",
           args |-> [auth_url |-> u, setup |-> su,
                     response |-> [err |-> r.err, code |-> r.code, token |-> t,
                                   body_is_token_response |-> b]],
           ret |-> Pending] :
            u \in {"https://keystone.example:5000/v3", "http://10.0.0.2:5000/v3/",
                   "https://cloud.example/identity/v3"},
            su \in {"ok", "cacert"},
            r \in {TransportError, HttpResponse(200), HttpResponse(201), HttpResponse(401),
                   HttpResponse(500)},
            t \in {None, Some([text |-> "gAAAAABtoken", visible_ascii |-> TRUE]),
                   Some([text |-> "raw", visible_ascii |-> FALSE])},
            b \in BOOLEAN }

\* The functions that are called on their own.
CallFns ==
    {"from_server", "extract_cloud_providers", "cmd_monitor", "cmd_ssh", "rewrite_kubeconfig", "lb_floating_ip", "OpenStackClient_new"}

CallsInit ==
    /\ cmd = "call"
    /\ auto_confirm = FALSE
    /\ has_openstack = FALSE
    /\ tf_dir_exists = TRUE
    /\ pc = "start"
    /\ result = "none"
    /\ network_id = None
    /\ cluster_name = None
    /\ prompt = None
    /\ confirmed = FALSE
    /\ input = None
    /\ tfLog = << >>
    /\ effects = {}
    /\ EngineIdle
    /\ MonitorIdle
    /\ \E fn \in CallFns : call \in Calls(fn)

\* The return of a function that touches nothing but its own result.
Returns(v) ==
    /\ call.ret = Pending
    /\ call' = [call EXCEPT !.ret = v]
    /\ UNCHANGED <<cmdVars, engineVars, monVars>>

from_server_call ==
    /\ call.fn = "from_server"
    /\ Returns(from_server(call.args.server, call.args.bastion_ip))

extract_cloud_providers_call ==
    /\ call.fn = "extract_cloud_providers"
    /\ Returns(extract_cloud_providers(call.args.outputs))

\* cmd_monitor, from its start to the check of expected_nodes.
cmd_monitor_call ==
    /\ call.fn = "cmd_monitor"
    /\ \E tailscale_ok \in BOOLEAN :
          Returns(cmd_monitor_expected_nodes(call.args.outputs, tailscale_ok))

\* cmd_ssh, from the extraction of the providers to the choice of the
\* connection: the only provider is selected, the operator selects the server
\* at `selected` (or none, when the list has no such entry), and Tailscale is
\* verified when the provider has it enabled.
cmd_ssh_call ==
    /\ call.fn = "cmd_ssh"
    /\ \E tailscale_ok \in BOOLEAN :
          LET extracted == extract_cloud_providers(call.args.outputs)
          IN  IF extracted.state = "err" THEN Returns(extracted)
              ELSE LET provider == extracted.val[1]
                       i == call.args.selected
                   IN  IF i + 1 > Len(provider.servers)
                       THEN Returns(Ok([strategy |-> "None"]))
                       ELSE IF provider.tailscale_enabled /\ ~tailscale_ok
                       THEN Returns(Err("Tailscale verification failed"))
                       ELSE Returns(connection_method(provider, provider.servers[i + 1]))

\* cmd_copy_kubeconfig, from the text it has read to the text it writes.
rewrite_kubeconfig_call ==
    /\ call.fn = "rewrite_kubeconfig"
    /\ Returns(Ok(rewrite_kubeconfig(call.args.kubeconfig, call.args.lb_floating_ip)))

\* cmd_copy_kubeconfig, the choice of lb_floating_ip.
lb_floating_ip_call ==
    /\ call.fn = "lb_floating_ip"
    /\ Returns(lb_floating_ip(call.args.outputs))

OpenStackClient_new_call ==
    /\ call.fn = "OpenStackClient_new"
    /\ Returns(OpenStackClient_new(call.args.auth_url, call.args.setup, call.args.response))

CallsNext ==
    \/ from_server_call
    \/ extract_cloud_providers_call
    \/ cmd_monitor_call
    \/ cmd_ssh_call
    \/ rewrite_kubeconfig_call
    \/ lb_floating_ip_call
    \/ OpenStackClient_new_call

SpecCalls == CallsInit /\ [][CallsNext]_vars

(***************************************************************************)
(* The list selectors of the terminal interface: ServerSelector and        *)
(* CloudProviderSelector (tui.rs) and MainMenuSelector (main.rs).  Each    *)
(* holds a list and a ListState whose selection is None or Some(index),    *)
(* the index counted from 0.                                               *)
(***************************************************************************)
SelectorKinds == {"ServerSelector", "CloudProviderSelector", "MainMenuSelector"}

\* MainMenuSelector::new: the commands of the menu.
MainMenuCommands == <<"Deploy", "Destroy", "SSH", "Copy Kubeconfig", "Monitor">>

\* The lists a selector is constructed with.
SelectorItems(kind) ==
    CASE kind = "ServerSelector" ->
            { [i \in 1..n |-> "k3s-server-" \o IndexString(i - 1)] : n \in 0..MaxItems }
      [] kind = "CloudProviderSelector" ->
            { [i \in 1..n |-> "provider-" \o IndexString(i - 1)] : n \in 0..MaxItems }
      [] kind = "MainMenuSelector" -> {MainMenuCommands}

\* new: the first item is selected, when there is one.  MainMenuSelector
\* selects it without looking at its list.
Selector_new(kind, items) ==
    IF kind = "MainMenuSelector" \/ items # << >> THEN Some(0) ELSE None

\* A `next` that stops at the last item.
Selector_next_StopsAtEnd(kind, items, selected) ==
    IF kind # "MainMenuSelector" /\ items = << >> THEN selected
    ELSE IF selected # None
         THEN Some(IF Unwrap(selected) + 1 >= Len(items)
                   THEN Unwrap(selected) ELSE Unwrap(selected) + 1)
         ELSE Some(0)

\* next: `(i + 1) % len`; ServerSelector and CloudProviderSelector return
\* first when the list is empty.
Selector_next(kind, items, selected) ==
    IF kind # "MainMenuSelector" /\ items = << >> THEN selected
    ELSE IF selected # None
         THEN Some((Unwrap(selected) + 1) % Len(items))
         ELSE Some(0)

\* previous: `if i == 0 { len - 1 } else { i - 1 }`, with the same return on
\* an empty list.
Selector_previous(kind, items, selected) ==
    IF kind # "MainMenuSelector" /\ items = << >> THEN selected
    ELSE IF selected # None
         THEN Some(IF Unwrap(selected) = 0 THEN Len(items) - 1 ELSE Unwrap(selected) - 1)
         ELSE Some(0)

\* get_selected: `state.selected().map(|i| &items[i])`, an index outside the
\* list being a panic; MainMenuSelector matches the index against 0..4 and
\* takes Deploy for any other.
Selector_get_selected(kind, items, selected) ==
    IF selected = None THEN Ok(None)
    ELSE IF kind = "MainMenuSelector"
    THEN Ok(Some(IF Unwrap(selected) \in 0..4
                 THEN MainMenuCommands[Unwrap(selected) + 1] ELSE "Deploy"))
    ELSE IF Unwrap(selected) + 1 \in DOMAIN items
    THEN Ok(Some(items[Unwrap(selected) + 1]))
    ELSE Err("index out of bounds")

\* A selector just constructed.  `op` is the last method called on it,
\* `before` the selection that method found, `keys` the number of next and
\* previous calls so far.
Selectors ==
    UNION { { [fn |-> kind, args |-> [items |-> items], ret |-> Pending,
               selected |-> Selector_new(kind, items), before |-> None,
               op |-> "new", keys |-> 0] : items \in SelectorItems(kind) } :
            kind \in SelectorKinds }

SelectorInit ==
    /\ cmd = "call"
    /\ auto_confirm = FALSE
    /\ has_openstack = FALSE
    /\ tf_dir_exists = TRUE
    /\ pc = "start"
    /\ result = "none"
    /\ network_id = None
    /\ cluster_name = None
    /\ prompt = None
    /\ confirmed = FALSE
    /\ input = None
    /\ tfLog = << >>
    /\ effects = {}
    /\ EngineIdle
    /\ MonitorIdle
    /\ call \in Selectors

\* The Down key: next.
selector_next ==
    /\ call.ret = Pending /\ call.keys < MaxKeys
    /\ call' = [call EXCEPT !.selected = Selector_next(call.fn, call.args.items, call.selected),
                            !.before = call.selected,
                            !.op = "next",
                            !.keys = call.keys + 1]
    /\ UNCHANGED <<cmdVars, engineVars, monVars>>

\* The Up key: previous.
selector_previous ==
    /\ call.ret = Pending /\ call.keys < MaxKeys
    /\ call' = [call EXCEPT !.selected = Selector_previous(call.fn, call.args.items, call.selected),
                            !.before = call.selected,
                            !.op = "previous",
                            !.keys = call.keys + 1]
    /\ UNCHANGED <<cmdVars, engineVars, monVars>>

\* The Enter key: get_selected, whose value the selector's run loop returns.
selector_get_selected ==
    /\ call.ret = Pending
    /\ call' = [call EXCEPT !.ret = Selector_get_selected(call.fn, call.args.items, call.selected),
                            !.before = call.selected,
                            !.op = "get_selected"]
    /\ UNCHANGED <<cmdVars, engineVars, monVars>>

SelectorNext ==
    \/ selector_next
    \/ selector_previous
    \/ selector_get_selected

SpecSelector == SelectorInit /\ [][SelectorNext]_vars

(***************************************************************************)
(* Properties of the reconciliation engine.                                *)
(***************************************************************************)
Range(seq) == {seq[i] : i \in DOMAIN seq}

\* C1: in every reconciliation entry point (cleanup_before_destroy,
\* cleanup_after_destroy, cleanup_orphaned_resources), no load-balancer DELETE is
\* ever issued for a load balancer whose name ends with "-lb".
C1_NoTerraformLbDeleted ==
    step = "lbs" => \A i \in DOMAIN reqs : ~EndsWith(reqs[i].name, "-lb")

\* A load-balancer step that listed "kube-api-lb" on the target network and has
\* issued a DELETE for another load balancer of the list.
C1_Witness ==
    /\ step = "lbs" /\ phase = "end"
    /\ \E i \in DOMAIN listed :
          listed[i].name = "kube-api-lb" /\ Some(listed[i].vip_network_id) = network_id
    /\ reqs # << >>

\* C2: for any load-balancer list response, cleanup_loadbalancers(network_id)
\* issues exactly one cascade DELETE for each listed load balancer with
\* vip_network_id = network_id whose name starts with "kube_service_" or "kube-"
\* and does not end with "-lb", and none for any other load balancer.
C2_ExactlyTheK8sLoadBalancers ==
    (step = "lbs" /\ phase = "end") =>
        IF listStatus = "ok"
        THEN reqs = SelectSeq(listed, LAMBDA lb :
                        /\ Some(lb.vip_network_id) = network_id
                        /\ \/ StartsWith(lb.name, "kube_service_")
                           \/ StartsWith(lb.name, "kube-")
                        /\ ~EndsWith(lb.name, "-lb"))
        ELSE reqs = << >>

\* A finished load-balancer step whose list held a Kubernetes load balancer of
\* the target network and one of another network, with one DELETE issued.
C2_Witness ==
    /\ step = "lbs" /\ phase = "end" /\ listStatus = "ok"
    /\ Len(listed) = 2
    /\ \E i, j \in DOMAIN listed :
          /\ listed[i].name = "kube-ingress"
          /\ Some(listed[i].vip_network_id) = network_id
          /\ listed[j].name = "kube_service_default_web"
          /\ Some(listed[j].vip_network_id) # network_id
    /\ Len(reqs) = 1

LbOrPortKinds == {"lbs", "octavia_ports", "lb_ports", "net_ports"}

\* C3: in one run of the destroy command, no security-group DELETE is issued
\* before all load-balancer DELETEs and all port DELETEs of the run: no
\* load-balancer or port DELETE follows a security-group DELETE.
C3_SecurityGroupsLast ==
    cmd = "destroy" =>
        \A i, j \in DOMAIN order :
            (i < j /\ order[i] = "sgs") => order[j] \notin LbOrPortKinds

\* A destroy run that deleted load balancers, ports and then security groups.
C3_Witness ==
    /\ cmd = "destroy"
    /\ "lbs" \in Range(order)
    /\ "octavia_ports" \in Range(order)
    /\ "lb_ports" \in Range(order)
    /\ order[Len(order)] = "sgs"

DestroyRank(kind) ==
    CASE kind = "lbs" -> 1
      [] kind = "octavia_ports" -> 2
      [] kind = "fips" -> 3
      [] kind = "lb_ports" -> 4
      [] kind = "sgs" -> 5
      [] OTHER -> 0

TerminalObservation(resp) ==
    /\ resp # NoPoll
    /\ ~resp.err
    /\ \/ resp.code = 404
       \/ /\ resp.code \in 200..299
          /\ resp.body.provisioning_status \in {Some("DELETED"), Some("ERROR")}

LastOutcome == IF outcomes = << >> THEN "none" ELSE outcomes[Len(outcomes)]

\* C5: wait_for_lb_deletion returns success as soon as a status GET, made before
\* the timeout has elapsed, returns 404 or a 2xx with provisioning_status
\* "DELETED" or "ERROR": the poll is over in the state that follows the GET, and
\* the load balancer is counted as deleted, not as failed (a load balancer in
\* ERROR included), and is not polled or deleted again.
C5_TerminalObservationEndsPoll ==
    (step = "lbs" /\ TerminalObservation(lastPoll)) =>
        /\ phase # "poll"
        /\ elapsed <= LbDeletionTimeoutSecs
        /\ Len(outcomes) = Len(reqs)
        /\ LastOutcome = "deleted"
        /\ Cardinality({reqs[i].id : i \in DOMAIN reqs}) = Len(reqs)

\* A load balancer observed in ERROR after an earlier inconclusive poll, and
\* counted as deleted.
C5_Witness ==
    /\ step = "lbs"
    /\ lastPoll # NoPoll /\ ~lastPoll.err /\ lastPoll.code = 200
    /\ lastPoll.body.provisioning_status = Some("ERROR")
    /\ elapsed > 0
    /\ LastOutcome = "deleted"
    /\ deleted_count = 1 /\ failed_count = 0

\* C6: if no status GET observes a terminal state within 120 seconds,
\* wait_for_lb_deletion returns a timeout error: the poll does not outlast the
\* first check made after 120 s, the load balancer is counted as failed, and
\* cleanup_loadbalancers goes on with the remaining candidates and returns Ok.
C6_PollTimeoutCountsFailedAndContinues ==
    step = "lbs" =>
        /\ phase = "poll" =>
              elapsed <= LbDeletionTimeoutSecs + HttpTimeoutSecs + LbPollIntervalSecs
        /\ (phase # "poll" /\ elapsed > LbDeletionTimeoutSecs) =>
              /\ LastOutcome = "timeout"
              /\ ~TerminalObservation(lastPoll)
        /\ failed_count = Cardinality({i \in DOMAIN outcomes : outcomes[i] # "deleted"})
        /\ (phase = "loop" /\ LastOutcome = "timeout") =>
              /\ idx = Len(outcomes) + 1
              /\ idx <= Len(candidates)
        /\ (phase = "end" /\ listStatus = "ok") =>
              /\ stepResult = "Ok"
              /\ reqs = candidates

\* A load-balancer step that returned Ok after the first candidate timed out
\* and the second one was deleted.
C6_Witness ==
    /\ step = "lbs" /\ phase = "end"
    /\ outcomes = <<"timeout", "deleted">>
    /\ failed_count = 1 /\ deleted_count = 1
    /\ stepResult = "Ok"


\* C7 as stated: cleanup_octavia_ports issues a DELETE for exactly those ports
\* of the network's port list whose device_owner starts with "Octavia" or
\* "octavia" and whose name contains the id of no load balancer that is on
\* network_id with a name ending "-lb"; the port of such a Terraform-owned load
\* balancer is never deleted.
C7_TerraformLbPortsNeverDeleted ==
    (step = "octavia_ports" /\ phase = "end" /\ listStatus = "ok") =>
        reqs = SelectSeq(listed, LAMBDA p :
                    /\ \/ StartsWith(p.device_owner, "Octavia")
                       \/ StartsWith(p.device_owner, "octavia")
                    /\ \A id \in tfOwnedIds : ~Contains(p.name, id))

\* A cleanup step in its loop has a candidate left; a finished step attempted
\* every candidate, and returned an error only before its first DELETE.
C8_StepInvariant ==
    /\ phase = "loop" => (idx <= Len(candidates) /\ stepResult = "none")
    /\ phase = "end" =>
          /\ reqs = candidates
          /\ Len(outcomes) = Len(reqs)
          /\ listStatus = "ok" => stepResult = "Ok"
          /\ stepResult = "Err" => reqs = << >>

\* The return of an entry point whose last step returned Ok, as its caller
\* sees it.
C8_EntryReturnsOk ==
    (phase = "end" /\ stepResult = "Ok" /\ entry' = "none") =>
        CASE entry = "before" -> pc' = "state_rm" /\ result' = result
          [] entry = "after" -> pc' = "done" /\ result' = "Ok"
          [] OTHER -> pc' = "done" /\ result' = "Ok"

\* C8: in each cleanup step a failed DELETE (a non-2xx/404 response or a
\* transport error) never stops the iteration: a DELETE is attempted for every
\* candidate, the step returns Ok whatever the number of failed deletes (it
\* returns an error only before its first DELETE), and an entry point whose
\* last step returns Ok returns Ok.
C8_FailedDeleteNeverStopsCleanup ==
    [](C8_StepInvariant) /\ [][C8_EntryReturnsOk]_vars

\* A floating-IP step that returned Ok after both of its DELETEs failed.
C8_Witness ==
    /\ step = "fips" /\ phase = "end"
    /\ outcomes = <<"failed", "failed">>
    /\ Len(reqs) = 2
    /\ failed_count = 2
    /\ stepResult = "Ok"

(***************************************************************************)
(* Properties of the commands.                                             *)
(***************************************************************************)
\* The lines that answer a (y/N) prompt with no, or with nothing.
NoOrEmptyLines == {"n\n", "", "\n"}

PrePrompts == {"pre_prompt_auth", "pre_prompt_cleanup"}

PostDestroyKinds == {"fips", "lb_ports", "sgs"}

\* What the answer to a "Continue anyway?" prompt leads to.
C9_AnswerDecides ==
    /\ pc \in PrePrompts => (cmd = "destroy" /\ result = "none")
    /\ (prompt \in {Some(q) : q \in PrePrompts} /\ IsSome(input)) =>
          /\ Unwrap(input) \in YesLines => (pc = "state_rm" /\ result = "none")
          /\ Unwrap(input) \in NoOrEmptyLines =>
                /\ pc = "done" /\ result = "Ok"
                /\ "destroy" \notin Range(tfLog)
                /\ entry = "none"
                /\ Range(order) \cap PostDestroyKinds = {}

\* A failed authentication and an error of cleanup_before_destroy lead to the
\* prompt, with the command still running.
C9_FailureAsks ==
    /\ (pc = "pre" /\ pc' \notin {"pre_cleanup", "state_rm"}) =>
          (pc' = "pre_prompt_auth" /\ result' = "none")
    /\ (entry = "before" /\ entry' = "none" /\ stepResult = "Err") =>
          (pc' = "pre_prompt_cleanup" /\ result' = "none")
    /\ (pc \in PrePrompts /\ pc' # pc) => prompt' = Some(pc)

\* C9: when, in cmd_destroy, OpenStack authentication fails or
\* cleanup_before_destroy returns an error, the command does not abort by itself
\* but asks the operator; an answer of yes (y or Y) makes it go on to the
\* terraform destroy steps, an answer of no or an empty answer makes it return
\* Ok with terraform destroy never run and no post-destroy cleanup.
C9_PreCleanupFailureAsksOperator ==
    [](C9_AnswerDecides) /\ [][C9_FailureAsks]_vars

\* cleanup_before_destroy returned an error, the operator pressed Enter, and
\* the command returned Ok.
C9_Witness ==
    /\ cmd = "destroy"
    /\ prompt = Some("pre_prompt_cleanup")
    /\ input = Some("\n")
    /\ pc = "done" /\ result = "Ok"

\* C10: without auto-confirm, cmd_destroy issues no cleanup request and no
\* terraform command, and cmd_deploy runs no terraform apply, unless the
\* operator answered yes to the initial confirmation prompt; an answer of no or
\* an empty answer ends the command with Ok and no side effect.
C10_NothingWithoutInitialYes ==
    (cmd \in {"deploy", "destroy"} /\ ~auto_confirm) =>
        /\ (effects # {} \/ tfLog # << >> \/ order # << >> \/ entry # "none") => confirmed
        /\ (prompt \in {Some("deploy"), Some("destroy")} /\ IsSome(input)
              /\ Unwrap(input) \in NoOrEmptyLines) =>
              /\ pc = "done" /\ result = "Ok"
              /\ effects = {} /\ tfLog = << >> /\ order = << >>

\* A destroy run without auto-confirm that was answered "Y" and has run its
\* pre-destroy cleanup and terraform destroy.
C10_Witness ==
    /\ cmd = "destroy" /\ ~auto_confirm
    /\ confirmed
    /\ "cleanup" \in effects
    /\ "destroy" \in Range(tfLog)


ListFailures == {"transport_error", "non_2xx", "unparseable"}

\* C11 as stated: a list or parse failure for one resource type (a non-2xx list
\* response, a transport error on the list request, an unparseable list body)
\* does not prevent the reconciliation call from processing the remaining
\* resource types: in cleanup_before_destroy and cleanup_after_destroy a step
\* whose list failed is followed by the next step of the entry point.
C11_ListFailureContinues ==
    [][ (/\ entry \in {"before", "after"}
         /\ phase = "end"
         /\ listStatus \in ListFailures
         /\ StepIndex(StepsOf(entry), step) < Len(StepsOf(entry)))
        => (/\ entry' = entry
            /\ step' = StepsOf(entry)[StepIndex(StepsOf(entry), step) + 1]) ]_vars


\* C12: a 409 response to a security-group DELETE is counted as failed/skipped
\* and does not stop the deletion of the remaining candidate security groups;
\* it changes neither the result of cleanup_after_destroy (Ok) nor the result
\* of cmd_destroy: a destroy run that has reached its security-group DELETEs
\* never returns an error, and returns Ok.
C12_ConflictIsSoft ==
    cmd = "destroy" =>
        /\ step = "sgs" =>
              /\ failed_count = Cardinality({i \in DOMAIN outcomes : outcomes[i] # "deleted"})
              /\ (phase = "loop" /\ LastOutcome = "conflict") =>
                    (idx = Len(outcomes) + 1 /\ idx <= Len(candidates))
              /\ (phase = "end" /\ "conflict" \in Range(outcomes)) =>
                    (reqs = candidates /\ stepResult = "Ok")
        /\ "sgs" \in Range(order) =>
              /\ result # "Err"
              /\ pc = "done" => result = "Ok"

\* A security-group step of a destroy run that returned Ok after a 409 for its
\* first candidate and a successful delete of the second.
C12_Witness ==
    /\ cmd = "destroy"
    /\ step = "sgs" /\ phase = "end"
    /\ outcomes = <<"conflict", "deleted">>
    /\ failed_count = 1 /\ deleted_count = 1
    /\ stepResult = "Ok"


\* C13: cleanup_floating_ips issues a DELETE for exactly the listed floating IPs
\* whose status is down or that have no bound port id, whatever the network
\* (the list is not filtered by network); a floating IP that is ACTIVE and
\* bound to a port is never deleted.
C13_ExactlyTheOrphanedFloatingIps ==
    step = "fips" =>
        /\ \A i \in DOMAIN reqs :
              ~(reqs[i].status = "ACTIVE" /\ reqs[i].port_id # None)
        /\ (phase = "end" /\ listStatus = "ok") =>
              reqs = SelectSeq(listed, LAMBDA fip :
                          \/ fip.status \in {"DOWN", "Down", "down"}
                          \/ fip.port_id = None)

\* A floating-IP step, run without any network id, whose list held an ACTIVE
\* bound floating IP and an ACTIVE unbound one, and which deleted one.
C13_Witness ==
    /\ step = "fips" /\ phase = "end" /\ listStatus = "ok"
    /\ network_id = None
    /\ \E i, j \in DOMAIN listed :
          /\ listed[i].status = "ACTIVE" /\ listed[i].port_id # None
          /\ listed[j].status = "ACTIVE" /\ listed[j].port_id = None
    /\ Len(reqs) = 1

\* C14: cleanup_security_groups(cluster_name) issues a DELETE for exactly the
\* listed security groups whose name starts with "lb-sg-" or equals
\* "{cluster_name}-server" or "{cluster_name}-agent"; no other security group
\* ("default", the "-server" group of another cluster) is ever deleted.
C14_ExactlyTheOrphanedSecurityGroups ==
    step = "sgs" =>
        /\ \A i \in DOMAIN reqs : reqs[i].name \notin {"default", "other-server"}
        /\ (phase = "end" /\ listStatus = "ok") =>
              reqs = SelectSeq(listed, LAMBDA sg :
                          \/ StartsWith(sg.name, "lb-sg-")
                          \/ sg.name = Unwrap(cluster_name) \o "-server"
                          \/ sg.name = Unwrap(cluster_name) \o "-agent")

\* A security-group step whose list held the cluster's "-server" group and the
\* "-server" group of another cluster, and which deleted one.
C14_Witness ==
    /\ step = "sgs" /\ phase = "end" /\ listStatus = "ok"
    /\ \E i, j \in DOMAIN listed :
          /\ listed[i].name = Unwrap(cluster_name) \o "-server"
          /\ listed[j].name = "other-server"
    /\ Len(reqs) = 1

ProtectedOwnerPrefixes == {"compute:", "network:router_", "network:dhcp"}

IsProtectedPort(p) == \E pre \in ProtectedOwnerPrefixes : StartsWith(p.device_owner, pre)

PortKinds == {"octavia_ports", "lb_ports", "net_ports"}

\* C15: no cleanup step of any reconciliation entry point ever issues a DELETE
\* for a port whose device_owner starts with "compute:", "network:router_" or
\* "network:dhcp"; the network-wide sweep cleanup_network_ports deletes every
\* other port listed for the network.
C15_ProtectedPortsNeverDeleted ==
    step \in PortKinds =>
        /\ \A i \in DOMAIN reqs : ~IsProtectedPort(reqs[i])
        /\ (step = "net_ports" /\ phase = "end" /\ listStatus = "ok") =>
              reqs = SelectSeq(listed, LAMBDA p : ~IsProtectedPort(p))

\* A network sweep whose list held a DHCP port and an unclassified port, and
\* which deleted one.
C15_Witness ==
    /\ step = "net_ports" /\ phase = "end" /\ listStatus = "ok"
    /\ \E i, j \in DOMAIN listed :
          /\ listed[i].device_owner = "network:dhcp"
          /\ listed[j].device_owner = "other"
    /\ Len(reqs) = 1



(***************************************************************************)
(* Properties of the monitor, checked under SpecMonitor.                   *)
(***************************************************************************)
NodesDone == nodes_ready_time # None

EnabledPhasesDone ==
    /\ NodesDone
    /\ gpu_enabled => gpu_install_complete # None
    /\ argocd_enabled => argocd_install_complete # None /\ argocd_tailscale_complete # None

\* C16: the phases of the monitor run in sequence and are gated: the GPU
\* phase is polled only once the nodes are ready and only with
\* enable_nvidia_gpu_operator, the ArgoCD phase only once the enabled phases
\* before it have completed and only with enable_argocd, the Tailscale-serve
\* phase only once ArgoCD has completed and under the same flag, the summary
\* only once every enabled phase has completed; a disabled phase is never
\* polled.
C16_PhasesInSequence ==
    /\ ("gpu" \in polled \/ pc = "gpu") => gpu_enabled /\ NodesDone
    /\ ("argocd" \in polled \/ pc = "argocd") =>
          /\ argocd_enabled /\ NodesDone
          /\ gpu_enabled => gpu_install_complete # None
    /\ ("serve" \in polled \/ pc = "serve") =>
          argocd_enabled /\ argocd_install_complete # None
    /\ (pc = "summary" \/ result = "Ok") => EnabledPhasesDone
    /\ polled # {} => "nodes" \in polled
    /\ gpu_install_complete # None => "gpu" \in polled
    /\ argocd_install_complete # None => "argocd" \in polled
    /\ argocd_tailscale_complete # None => "serve" \in polled

C16_Witness ==
    /\ result = "Ok"
    /\ gpu_enabled /\ argocd_enabled
    /\ polled = {"nodes", "gpu", "argocd", "serve"}
    /\ EnabledPhasesDone


LinesContaining(text, marker) ==
    LET ls == Lines(text)
    IN  Cardinality({i \in DOMAIN ls : Contains(ls[i], marker)})

ObservedNodesReady ==
    /\ observed.cmd = "ok"
    /\ Trim(observed.stdout) # ""
    /\ LinesContaining(observed.stdout, " Ready ") >= expected_nodes
    /\ Len(Lines(observed.stdout)) >= expected_nodes

\* C17: the node-readiness phase completes in a poll iteration exactly when
\* kubectl succeeded with a non-empty output in which the lines containing
\* " Ready " and the lines reported both number at least the expected node
\* count; an iteration whose command failed, whose output is empty, or whose
\* nodes are NotReady leaves the phase running with no ready time recorded.
C17_NodesCompleteIffReady ==
    observed.phase = "nodes" =>
        /\ ObservedNodesReady <=> nodes_ready_time # None
        /\ ObservedNodesReady <=> pc # "nodes"
        /\ ~ObservedNodesReady => result = "none"

C17_Witness ==
    /\ observed.phase = "nodes"
    /\ expected_nodes = MaxNodes
    /\ polls > 1
    /\ ObservedNodesReady
    /\ nodes_ready_time = Some(CheckIntervalSecs * (polls - 1))
    /\ pc \in {"gpu", "argocd", "summary"}


ObservedInstallPhase == observed.phase \in InstallPhases

\* k3s-server.log was read and holds "ERROR" or "FATAL".
ObservedServerError ==
    /\ ObservedInstallPhase
    /\ observed.cmd = "ok"
    /\ Contains(observed.stdout, "ERROR") \/ Contains(observed.stdout, "FATAL")

\* The phases that come after a phase in the order of the source.
LaterPhases(ph) ==
    CASE ph = "nodes" -> {"gpu", "argocd", "serve"}
      [] ph = "gpu" -> {"argocd", "serve"}
      [] ph = "argocd" -> {"serve"}
      [] OTHER -> {}

\* C18: in a poll iteration of the GPU, ArgoCD or Tailscale-serve phase in
\* which k3s-server.log is read successfully and contains "ERROR" or "FATAL",
\* the monitor ends with an error for the whole monitor: no later phase is
\* polled, the phase records no completion and no summary is reached,
\* whether or not the log also holds the phase's start marker and whether or
\* not the phase's install log holds its completion marker.
C18_ServerErrorEndsMonitor ==
    ObservedServerError =>
        /\ pc = "done" /\ result = "Err"
        /\ polled \cap LaterPhases(observed.phase) = {}
        /\ observed.phase = "gpu" => gpu_install_complete = None
        /\ observed.phase = "argocd" => argocd_install_complete = None
        /\ observed.phase = "serve" => argocd_tailscale_complete = None

C18_Witness ==
    /\ ObservedServerError
    /\ observed.phase = "gpu"
    /\ argocd_enabled
    /\ Contains(observed.stdout, StartMarker("gpu"))
    /\ Contains(observed.stdout2, CompleteMarker("gpu"))
    /\ result = "Err"


\* The phase's own install log was read and holds "ERROR".
ObservedInstallError ==
    /\ ObservedInstallPhase
    /\ observed.cmd = "ok" /\ observed.cmd2 = "ok"
    /\ Contains(observed.stdout2, "ERROR")

\* C19: an "ERROR" marker in a phase's own install log is fatal only to that
\* phase: the monitor as a whole does not end with an error, and it goes on
\* to the later enabled phases.
C19_InstallErrorEndsOnlyThePhase ==
    ObservedInstallError =>
        /\ result # "Err"
        /\ pc \in {NextPhase(observed.phase, gpu_enabled, argocd_enabled), "done"}
                  \cup LaterPhases(observed.phase)


\* A remote command of the iteration could not be executed or exited
\* non-zero: the read of k3s-server.log, or the read of the install log.
ObservedCommandFailure ==
    /\ ObservedInstallPhase
    /\ \/ observed.cmd \in {"spawn_error", "nonzero"}
       \/ observed.cmd = "ok" /\ observed.cmd2 \in {"spawn_error", "nonzero"}

PhaseComplete(ph) ==
    CASE ph = "gpu" -> gpu_install_complete
      [] ph = "argocd" -> argocd_install_complete
      [] ph = "serve" -> argocd_tailscale_complete

\* C20: in the GPU, ArgoCD and Tailscale-serve phases an iteration whose
\* remote command cannot be executed or exits non-zero, for either log, is
\* "not ready yet": the monitor stays in the phase, records no completion
\* time, raises no error and polls again after the interval; the monitor
\* ends such a phase with an error only on an error marker in a log it read
\* successfully.
C20_CommandFailureIsNotReadyYet ==
    /\ ObservedCommandFailure =>
          /\ pc = observed.phase
          /\ result = "none"
          /\ PhaseComplete(observed.phase) = None
    /\ (ObservedInstallPhase /\ result = "Err") =>
          \/ ObservedServerError
          \/ ObservedInstallError

C20_Witness ==
    /\ ObservedCommandFailure
    /\ observed.cmd = "ok" /\ observed.cmd2 = "nonzero"
    /\ pc = "argocd"
    /\ gpu_install_complete # None
    /\ now = CheckIntervalSecs * (polls - 1)
    /\ polls >= 3


(***************************************************************************)
(* Further properties of the reconciliation engine and of the commands,    *)
(* checked under Spec.                                                     *)
(***************************************************************************)
\* cleanup_loadbalancers has attempted every candidate: a DELETE was sent for
\* each, and each has its outcome (a refused DELETE, or the end of its poll).
AllLbsAttempted ==
    /\ phase = "end"
    /\ listStatus = "ok" =>
          /\ Len(reqs) = Len(candidates)
          /\ Len(outcomes) = Len(candidates)
          /\ \A i \in DOMAIN candidates : reqs[i] = candidates[i]

C27_OrderInv ==
    entry = "before" =>
        /\ order \in {<< >>, <<"lbs">>, <<"octavia_ports">>, <<"lbs", "octavia_ports">>}
        /\ step = "lbs" => "octavia_ports" \notin Range(order)
        /\ phase = "poll" => step = "lbs"
        /\ step = "octavia_ports" => phase # "poll"

C27_RelistAfterLbs ==
    (entry = "before" /\ step = "lbs" /\ step' # "lbs") =>
        /\ AllLbsAttempted
        /\ stepResult = "Err" => step' = "none"
        /\ stepResult # "Err" => step' = "octavia_ports" /\ phase' = "relist"

\* C27: in cleanup_before_destroy the load-balancer re-list and the first
\* Octavia port DELETE come only after every candidate load balancer has had
\* its cascade DELETE attempted and, where the DELETE was accepted, its
\* completion poll has ended in a terminal state or a timeout; no
\* load-balancer DELETE and no status poll follows a port DELETE.
C27_PortsAfterAllLoadBalancers == []C27_OrderInv /\ [][C27_RelistAfterLbs]_vars

C27_Witness ==
    /\ entry = "before" /\ step = "octavia_ports"
    /\ order = <<"lbs", "octavia_ports">>
    /\ reqs # << >>
    /\ terraform_lb_ids # {}

\* C28: cleanup_orphaned_resources called with a network id follows the
\* order load balancers, their ports, floating IPs: once a port DELETE or a
\* floating-IP DELETE has been issued, the load-balancer deletes of the call
\* have all been attempted.
C28_OrphanedResourcesOrder ==
    (cmd = "orphans" /\ IsSome(network_id)
        /\ Range(order) \cap {"fips", "lb_ports", "net_ports"} # {}) =>
        /\ step \notin {"fips", "lb_ports"}
        /\ step = "lbs" => phase = "end"
        /\ \A i, j \in DOMAIN order :
              (order[i] = "lbs" /\ order[j] \in {"fips", "lb_ports", "net_ports"}) => i < j

\* C29: with auto-confirm set, cmd_destroy and cmd_deploy never ask for a
\* confirmation, on any path: no prompt is shown and no line is read.
C29_AutoConfirmNeverAsks ==
    (auto_confirm /\ cmd \in {"deploy", "destroy"}) =>
        /\ prompt = None
        /\ input = None
        /\ pc \notin {"tailscale_prompt", "pre_prompt_auth", "pre_prompt_cleanup"}

\* The response of the last DELETE is one the code takes as "delete accepted".
LastDeleteAccepted ==
    /\ ~lastDelete.err
    /\ lastDelete.code \in (200..299) \cup {404}

CountOf(outs, which) == Cardinality({i \in DOMAIN outs : outs[i] \in which})

\* C30: for every candidate of a cleanup step exactly one of the two
\* counters goes up: deleted when the DELETE response is 2xx or 404 (for a
\* load balancer only once the completion poll has returned success), failed
\* for any other response, a transport error or a poll timeout; when the
\* step ends, deleted + failed is the number of candidates, and a 404 on a
\* DELETE is never counted as a failure.
C30_ExactlyOneCounterPerCandidate ==
    step # "none" =>
        /\ deleted_count = CountOf(outcomes, {"deleted"})
        /\ failed_count = CountOf(outcomes, {"failed", "conflict", "timeout"})
        /\ deleted_count + failed_count = Len(outcomes)
        /\ Len(outcomes) <= Len(candidates)
        /\ (phase = "end" /\ listStatus = "ok") =>
              deleted_count + failed_count = Len(candidates)
        /\ (lastDelete # NoDelete /\ step # "lbs") =>
              /\ Len(outcomes) = Len(reqs)
              /\ LastDeleteAccepted <=> LastOutcome = "deleted"
        /\ (lastDelete # NoDelete /\ step = "lbs") =>
              /\ LastDeleteAccepted <=> (phase = "poll" /\ Len(outcomes) = Len(reqs) - 1)
              /\ ~LastDeleteAccepted => (Len(outcomes) = Len(reqs) /\ LastOutcome = "failed")
        /\ (step = "lbs" /\ phase # "poll" /\ outcomes # << >> /\ lastDelete = NoDelete) =>
              /\ LastOutcome = "deleted" <=> TerminalObservation(lastPoll)
              /\ LastOutcome = "timeout" <=> ~TerminalObservation(lastPoll)

C30_Witness ==
    /\ step = "lb_ports" /\ phase = "end"
    /\ Len(candidates) = 2
    /\ outcomes = <<"failed", "deleted">>
    /\ lastDelete = HttpResponse(404)
    /\ deleted_count = 1 /\ failed_count = 1


(***************************************************************************)
(* Properties of the functions called on their own, checked under          *)
(* SpecCalls.                                                              *)
(***************************************************************************)
Returned(fn) == call.fn = fn /\ call.ret.state # "pending"

\* C22: ConnectionStrategy::from_server returns Tailscale{hostname} whenever
\* the server has a Tailscale hostname, a bastion IP being present or not;
\* Bastion{bastion_ip, target_ip = server.ip} when the server has no hostname
\* and a bastion IP is present; the NoConnectionMethod error when there is
\* neither.
C22_FromServerPrefersTailscale ==
    Returned("from_server") =>
        LET server == call.args.server
            bastion == call.args.bastion_ip
            ret == call.ret
        IN  /\ server.tailscale_hostname # None =>
                  /\ ret.state = "ok"
                  /\ ret.val.strategy = "Tailscale"
                  /\ ret.val.hostname = server.tailscale_hostname[1]
            /\ (server.tailscale_hostname = None /\ bastion # None) =>
                  /\ ret.state = "ok"
                  /\ ret.val.strategy = "Bastion"
                  /\ ret.val.bastion_ip = bastion[1]
                  /\ ret.val.target_ip = server.ip
            /\ (server.tailscale_hostname = None /\ bastion = None) =>
                  /\ ret.state = "err"
                  /\ ret.val = "NoConnectionMethod"

C22_Witness ==
    /\ Returned("from_server")
    /\ call.args.server.tailscale_hostname = Some("server-0.tailnet.ts.net")
    /\ call.args.bastion_ip = Some("1.2.3.4")
    /\ call.ret.state = "ok"
    /\ call.ret.val.strategy = "Tailscale"


\* The hostname the claim gives entry i (counted from 0) of an array of
\* addresses: element i of the matching hostname array, with Tailscale on.
ClaimedHostname(outputs, hosts, i) ==
    IF outputs.tailscale_enabled = Some(TRUE) /\ hosts # None /\ i + 1 <= Len(hosts[1])
    THEN Some(hosts[1][i + 1].v)
    ELSE None

\* C23 as stated: for server_ips of length n and agent_ips of length m the
\* extraction yields exactly n entries k3s-server-0..n-1 followed by m
\* entries k3s-agent-0..m-1, entry i with the i-th address and, with
\* Tailscale enabled, the i-th element of the matching hostname array.
C23_OneEntryPerElement ==
    (Returned("extract_cloud_providers")
        /\ call.args.outputs.server_ips # None /\ call.args.outputs.agent_ips # None) =>
        LET o == call.args.outputs
            a == o.server_ips[1]
            b == o.agent_ips[1]
        IN  /\ call.ret.state = "ok"
            /\ Len(call.ret.val[1].servers) = Len(a) + Len(b)
            /\ \A k \in 1..Len(a) :
                  LET e == call.ret.val[1].servers[k]
                  IN  /\ e.name = "k3s-server-" \o IndexString(k - 1)
                      /\ e.ip = a[k].v
                      /\ e.tailscale_hostname = ClaimedHostname(o, o.openstack_servers, k - 1)
            /\ \A k \in 1..Len(b) :
                  LET e == call.ret.val[1].servers[Len(a) + k]
                  IN  /\ e.name = "k3s-agent-" \o IndexString(k - 1)
                      /\ e.ip = b[k].v
                      /\ e.tailscale_hostname = ClaimedHostname(o, o.openstack_agents, k - 1)

\* The indices of the elements of an array that are strings, and the place
\* of index i among them.
StringIndices(arr) == {i \in 1..Len(arr) : arr[i].t = "str"}
PlaceOf(i, arr) == Cardinality({j \in StringIndices(arr) : j <= i})

\* The hostname of the entry made from element i (counted from 0): element i
\* of the matching hostname array when Tailscale is on and that element is a
\* string.
EntryHostname(outputs, hosts, i) ==
    IF /\ outputs.tailscale_enabled = Some(TRUE)
       /\ hosts # None
       /\ i + 1 <= Len(hosts[1])
       /\ hosts[1][i + 1].t = "str"
    THEN Some(hosts[1][i + 1].v)
    ELSE None

\* C23: for server_ips and agent_ips that hold at least one string between
\* them, the extraction yields one entry for every element that is a
\* string, the servers before the agents, each list in the order of the
\* array: the entry of element i is named k3s-server-i or k3s-agent-i and
\* carries the i-th address and, when tailscale_enabled is true and the
\* matching hostname array has a string at i, that hostname; otherwise it
\* carries no hostname.  With no string in either array the extraction
\* fails.
C23_OneEntryPerStringElement ==
    (Returned("extract_cloud_providers")
        /\ call.args.outputs.server_ips # None /\ call.args.outputs.agent_ips # None) =>
        LET o == call.args.outputs
            a == o.server_ips[1]
            b == o.agent_ips[1]
            n == Cardinality(StringIndices(a))
            m == Cardinality(StringIndices(b))
        IN  /\ call.ret.state = "ok" <=> n + m > 0
            /\ call.ret.state = "ok" =>
                  /\ Len(call.ret.val) = 1
                  /\ Len(call.ret.val[1].servers) = n + m
                  /\ \A k \in StringIndices(a) :
                        call.ret.val[1].servers[PlaceOf(k, a)] =
                            [name |-> "k3s-server-" \o IndexString(k - 1),
                             ip |-> a[k].v,
                             cloud_provider |-> "openstack",
                             tailscale_hostname |->
                                 EntryHostname(o, o.openstack_servers, k - 1)]
                  /\ \A k \in StringIndices(b) :
                        call.ret.val[1].servers[n + PlaceOf(k, b)] =
                            [name |-> "k3s-agent-" \o IndexString(k - 1),
                             ip |-> b[k].v,
                             cloud_provider |-> "openstack",
                             tailscale_hostname |->
                                 EntryHostname(o, o.openstack_agents, k - 1)]

C23_Witness ==
    /\ Returned("extract_cloud_providers")
    /\ call.args.outputs.tailscale_enabled = Some(TRUE)
    /\ call.args.outputs.server_ips = Some(<<JStr("10.0.1.10"), JStr("10.0.1.11")>>)
    /\ call.args.outputs.agent_ips = Some(<<JStr("10.0.2.10"), JStr("10.0.2.11")>>)
    /\ call.args.outputs.openstack_servers =
          Some(<<JStr("k3s-server-0.tailnet.ts.net"), JStr("k3s-server-1.tailnet.ts.net")>>)
    /\ call.args.outputs.openstack_agents = Some(<<JStr("k3s-agent-0.tailnet.ts.net")>>)
    /\ call.ret.state = "ok"
    /\ Len(call.ret.val[1].servers) = 4
    /\ call.ret.val[1].servers[2].tailscale_hostname = Some("k3s-server-1.tailnet.ts.net")
    /\ call.ret.val[1].servers[4].name = "k3s-agent-1"
    /\ call.ret.val[1].servers[4].tailscale_hostname = None

\* The number of entries of the extracted topology named with `word`.
TopologyCount(word) ==
    LET extracted == extract_cloud_providers(call.args.outputs.topology)
    IN  IF extracted.state = "err" THEN 0
        ELSE Len(SelectSeq(extracted.val[1].servers, LAMBDA e : Contains(e.name, word)))

\* The server count and the agent count as C21 takes them.
ClaimedCount(aggregated, word) ==
    IF aggregated # None THEN Len(aggregated[1]) ELSE TopologyCount(word)

\* C21: the expected node count cmd_monitor goes on with is the server count
\* plus the agent count, each the length of the aggregated output
\* (all_server_ips, all_agent_ips) when that output is there and otherwise the
\* number of servers, or agents, of the extracted topology; and when that sum
\* is zero cmd_monitor returns an error, no poll having been made.
C21_ExpectedNodeCount ==
    Returned("cmd_monitor") =>
        LET sum == ClaimedCount(call.args.outputs.all_server_ips, "server")
                   + ClaimedCount(call.args.outputs.all_agent_ips, "agent")
        IN  /\ call.ret.state = "ok" => call.ret.val = sum
            /\ sum = 0 => call.ret.state = "err" /\ polls = 0 /\ polled = {}

\* One count comes from the aggregated output and differs from the topology's,
\* the other from the topology.
C21_Witness ==
    /\ Returned("cmd_monitor")
    /\ call.ret.state = "ok"
    /\ call.args.outputs.all_server_ips # None
    /\ Len(call.args.outputs.all_server_ips[1]) # TopologyCount("server")
    /\ call.args.outputs.all_agent_ips = None
    /\ TopologyCount("agent") > 0
    /\ call.ret.val = Len(call.args.outputs.all_server_ips[1]) + TopologyCount("agent")

\* The places, counted from 1, where pat stands in s at or after place from.
PlacesOf(s, pat, from) ==
    { i \in from..(Len(s) - Len(pat) + 1) : SubSeq(s, i, i + Len(pat) - 1) = pat }

\* The text claimed for a kubeconfig k whose first "server: https://" ends
\* just before place host and whose next ":6443" stands at place port: out
\* is k with the characters host..port-1 replaced by ip.
OnlyHostReplaced(k, ip, out, host, port) ==
    /\ Len(out) = Len(k) - (port - host) + Len(ip)
    /\ SubSeq(out, 1, host - 1) = SubSeq(k, 1, host - 1)
    /\ SubSeq(out, host, host + Len(ip) - 1) = ip
    /\ SubSeq(out, host + Len(ip), Len(out)) = SubSeq(k, port, Len(k))

\* C24: the kubeconfig written has the load-balancer floating IP in place of
\* the characters between the first "server: https://" and the next ":6443"
\* and is otherwise the kubeconfig read, character for character; a kubeconfig
\* without "server: https://", or without a ":6443" after it, is written as
\* it was read.
C24_OnlyTheHostIsReplaced ==
    Returned("rewrite_kubeconfig") =>
        LET k == call.args.kubeconfig
            markers == PlacesOf(k, "server: https://", 1)
        IN  IF markers = {} THEN call.ret.val = k
            ELSE LET host == (CHOOSE i \in markers : \A j \in markers : i <= j) + 16
                     ports == PlacesOf(k, ":6443", host)
                 IN  IF ports = {} THEN call.ret.val = k
                     ELSE OnlyHostReplaced(k, call.args.lb_floating_ip, call.ret.val, host,
                                           CHOOSE i \in ports : \A j \in ports : i <= j)

\* The spec's example, with a second server line that stays as it is.
C24_Witness ==
    /\ Returned("rewrite_kubeconfig")
    /\ call.args.kubeconfig = "server: https://10.0.0.5:6443\n---\nserver: https://10.0.0.6:6443\n"
    /\ call.args.lb_floating_ip = "5.6.7.8"
    /\ call.ret.val = "server: https://5.6.7.8:6443\n---\nserver: https://10.0.0.6:6443\n"

\* C25: from a primary_api_endpoint "https://<ip>:6443" the extraction gives
\* exactly <ip>; whenever primary_api_endpoint is there the result is a part
\* of it, and openstack_cluster.loadbalancer_ip is the result only when
\* primary_api_endpoint is absent; with neither the command fails.
C25_LoadBalancerIpExtraction ==
    Returned("lb_floating_ip") =>
        LET e == call.args.outputs.primary_api_endpoint
            lb == call.args.outputs.loadbalancer_ip
        IN  /\ \A ip \in Addresses :
                  e = Some("https://" \o ip \o ":6443") => call.ret = Ok(ip)
            /\ e # None => call.ret.state = "ok" /\ Contains(e[1], call.ret.val)
            /\ e = None /\ lb # None => call.ret = Ok(lb[1])
            /\ e = None /\ lb = None => call.ret.state = "err"

\* The spec's example, with another address in openstack_cluster.
C25_Witness ==
    /\ Returned("lb_floating_ip")
    /\ call.args.outputs.primary_api_endpoint = Some("https://5.6.7.8:6443")
    /\ call.args.outputs.loadbalancer_ip = Some("9.9.9.9")
    /\ call.ret = Ok("5.6.7.8")

\* The token request was answered, with a 2xx status.
TokenRequestSucceeded ==
    /\ call.args.setup = "ok"
    /\ ~call.args.response.err
    /\ IsSuccess(call.args.response.code)

\* C26: OpenStackClient::new returns an error when the token request is
\* answered with a non-2xx status, and when a 2xx answer has no
\* X-Subject-Token header; for a 2xx answer with the header it returns a
\* client that holds that token, its network and load-balancer endpoints
\* being the auth URL of the request with ":5000/v3" replaced.
C26_TokenHeaderGivesClient ==
    Returned("OpenStackClient_new") =>
        /\ ~call.args.response.err /\ ~IsSuccess(call.args.response.code)
             => call.ret.state = "err"
        /\ TokenRequestSucceeded /\ call.args.response.token = None
             => call.ret.state = "err"
        /\ TokenRequestSucceeded /\ call.args.response.token # None
             => /\ call.ret.state = "ok"
                /\ call.ret.val.auth_token = call.args.response.token[1].text
                /\ call.ret.val.neutron_endpoint
                     = Replace(call.args.auth_url, ":5000/v3", ":9696/v2.0")
                /\ call.ret.val.octavia_endpoint
                     = Replace(call.args.auth_url, ":5000/v3", ":9876/v2.0")

(***************************************************************************)
(* cmd_destroy around terraform destroy.                                   *)
(***************************************************************************)
\* cmd_destroy has left its terraform destroy step: every prompt returns
\* with the prompt on the screen, the destroy step clears it.
PastDestroyStep ==
    /\ cmd = "destroy"
    /\ \/ pc \in {"post", "post_cleanup"}
       \/ pc = "done" /\ prompt = None

\* The terraform state rm step leads to the terraform destroy step, its
\* outcome leaving the command's result alone.
StateRmSwallowed ==
    cmd = "destroy" /\ pc = "state_rm" => pc' = "destroy" /\ result' = "none"

ConditionsHold(obs) ==
    /\ obs.cmd = "ok" /\ obs.cmd2 = "ok"
    /\ obs.phase = "nodes" => LinesContaining(obs.stdout, " Ready ") >= expected_nodes
    /\ obs.phase \in InstallPhases =>
          /\ Contains(obs.stdout, StartMarker(obs.phase))
          /\ Contains(obs.stdout2, CompleteMarker(obs.phase))
          /\ \A log \in {obs.stdout, obs.stdout2} :
                ~Contains(log, "ERROR") /\ ~Contains(log, "FATAL")

\* A poll that ends the monitor with an error: the detail listing of the
\* ready nodes cannot be spawned, k3s-server.log shows ERROR or FATAL, or the
\* install log that was read shows ERROR and no completion marker.
EndsInError(obs) ==
    \/ /\ obs.phase = "nodes"
       /\ obs.cmd = "ok"
       /\ LinesContaining(obs.stdout, " Ready ") >= expected_nodes
       /\ obs.cmd2 = "spawn_error"
    \/ /\ obs.phase \in InstallPhases
       /\ obs.cmd = "ok"
       /\ Contains(obs.stdout, "ERROR") \/ Contains(obs.stdout, "FATAL")
    \/ /\ obs.phase \in InstallPhases
       /\ obs.cmd = "ok" /\ obs.cmd2 = "ok"
       /\ Contains(obs.stdout2, "ERROR")
       /\ ~Contains(obs.stdout2, CompleteMarker(obs.phase))

\* A poll that shows its phase complete.
ShowsComplete(obs) ==
    /\ obs.cmd = "ok"
    /\ obs.phase = "nodes" => LinesContaining(obs.stdout, " Ready ") >= expected_nodes
    /\ obs.phase \in InstallPhases =>
          /\ Contains(obs.stdout, StartMarker(obs.phase))
          /\ obs.cmd2 = "ok"
          /\ Contains(obs.stdout2, CompleteMarker(obs.phase))

\* A poll that shows neither completion nor an error leaves the monitor in
\* its phase, whatever the time elapsed.
WaitsWhateverTheTime ==
    polls' # polls /\ ~ShowsComplete(observed') /\ ~EndsInError(observed')
        => pc' = pc /\ result' = "none"

MonitorReturnsOk == pc = "done" /\ result = "Ok"

\* C32 as stated (observed is what the last poll read, so that it meets the
\* conditions for ever is: every poll does): if from some poll on every poll
\* meets the conditions, the
\* monitor prints the summary and returns Ok; and a poll that does not meet
\* them never ends a phase loop by the time elapsed.
C32_EventuallyGoodPollsReturnOk ==
    /\ <>[]ConditionsHold(observed) => <>MonitorReturnsOk
    /\ [][WaitsWhateverTheTime]_vars

\* The nodes became ready only after NODE_READY_TIMEOUT_SECS had passed, and
\* the monitor went on to return Ok.
C32_Witness ==
    /\ cmd = "monitor"
    /\ MonitorReturnsOk
    /\ nodes_ready_time # None
    /\ nodes_ready_time[1] > NodeReadyTimeoutSecs
    /\ ConditionsHold(observed)


(***************************************************************************)
(* cleanup_octavia_ports when the load-balancer re-list fails               *)
(***************************************************************************)

\* The re-list of cleanup_octavia_ports came back with a non-2xx status or an
\* unparseable body while load balancers named "...-lb" exist on the network:
\* terraform_lb_ids holds none of their ids.
RelistFailed ==
    /\ entry = "before" /\ step = "octavia_ports"
    /\ phase \in {"loop", "end"}
    /\ terraform_lb_ids = {} /\ tfOwnedIds # {}

\* C33 as stated: in cleanup_before_destroy, when the load-balancer re-list
\* returned a non-2xx status or an unparseable body, still no DELETE is sent
\* for a port whose name contains the id of a load balancer that is on the
\* network with a name ending "-lb".
C33_ProtectionWithoutRelist ==
    RelistFailed =>
        \A i \in DOMAIN reqs : \A id \in tfOwnedIds : ~Contains(reqs[i].name, id)


(***************************************************************************)
(* cmd_destroy: the post-destroy cleanup.                                  *)
(***************************************************************************)
\* The kinds of DELETE that cleanup_after_destroy sends.
AfterKinds == { cleanup_after_destroy[i] : i \in DOMAIN cleanup_after_destroy }

\* terraform destroy has just been run and exited with status 0.
DestroySucceeded ==
    /\ cmd = "destroy" /\ pc = "destroy"
    /\ tfLog' = Append(tfLog, "destroy")
    /\ pc' = "post"
    /\ result' = "none"

\* One step of cmd_destroy from terraform destroy on: a terraform destroy that
\* does not succeed ends the command with its error; the post-destroy cleanup
\* starts only from the step that a successful terraform destroy leads to; and
\* from that step on the command's result can only become Ok.
PostDestroyStep ==
    /\ (cmd = "destroy" /\ pc = "destroy" /\ ~DestroySucceeded) =>
           pc' = "done" /\ result' = "Err" /\ entry' = "none"
    /\ (cmd = "destroy" /\ pc' = "post" /\ pc # "post") => DestroySucceeded
    /\ (entry' = "after" /\ entry # "after") => (cmd = "destroy" /\ pc = "post")
    /\ (cmd = "destroy" /\ pc \in {"post", "post_cleanup"}) =>
           /\ result' \in {"none", "Ok"}
           /\ pc' \in {"post_cleanup", "done"}
           /\ pc' = "done" => result' = "Ok"

\* C34: cleanup_after_destroy is invoked only after terraform destroy returned
\* successfully; when terraform destroy fails cmd_destroy returns that error
\* and sends no floating-IP, load-balancer-port or security-group DELETE; and
\* a failed post-destroy authentication or an error of cleanup_after_destroy
\* never turns the successful destroy into a failure.
C34_PostCleanupOnlyAfterDestroy ==
    /\ [](entry = "after" =>
            /\ cmd = "destroy" /\ pc = "post_cleanup" /\ result = "none"
            /\ tfLog # << >> /\ tfLog[Len(tfLog)] = "destroy")
    /\ []((cmd = "destroy" /\ result = "Err") =>
            /\ entry = "none"
            /\ \A i \in DOMAIN order : order[i] \notin AfterKinds)
    /\ [][PostDestroyStep]_vars

\* After a successful terraform destroy, a cleanup function of
\* cleanup_after_destroy has returned an error after floating IPs were deleted.
C34_Witness ==
    /\ cmd = "destroy" /\ entry = "after" /\ pc = "post_cleanup"
    /\ phase = "end" /\ stepResult = "Err"
    /\ order # << >> /\ order[Len(order)] \in AfterKinds
    /\ tfLog[Len(tfLog)] = "destroy"


(***************************************************************************)
(* cmd_destroy: the cleanups that are skipped.                             *)
(***************************************************************************)
\* What step 3 needs: credentials, a network id and a cluster name.
PreCleanupAvailable == has_openstack /\ IsSome(network_id) /\ IsSome(cluster_name)

\* What step 6 needs: credentials and a cluster name.
PostCleanupAvailable == has_openstack /\ IsSome(cluster_name)

\* cmd_destroy is past the reading of the Terraform outputs.
OutputsRead == cmd = "destroy" /\ pc \notin {"start", "tailscale", "tailscale_prompt", "outputs"}

\* The steps 3 and 6 of cmd_destroy: step 3 without what it needs goes
\* straight to the state rm step, asking nothing and sending no request; step 6
\* authenticates exactly when it has credentials and a cluster name, and
\* otherwise ends the command with Ok, sending no request.
CleanupSkipStep ==
    /\ (cmd = "destroy" /\ pc = "pre" /\ ~PreCleanupAvailable) =>
           /\ pc' = "state_rm"
           /\ prompt' = None /\ entry' = "none" /\ effects' = effects
    /\ (cmd = "destroy" /\ pc = "post") =>
           IF PostCleanupAvailable
           THEN "cleanup" \in effects' /\ (entry' = "after" \/ pc' = "done")
           ELSE pc' = "done" /\ result' = "Ok" /\ entry' = "none" /\ effects' = effects

\* With step 3 skipped no cleanup function of cleanup_before_destroy has run
\* and neither "Continue anyway?" prompt is asked.
PreCleanupSkipped ==
    (OutputsRead /\ ~PreCleanupAvailable) =>
        /\ pc \notin {"pre_cleanup", "pre_prompt_auth", "pre_prompt_cleanup"}
        /\ entry # "before"
        /\ \A i \in DOMAIN order : order[i] \in AfterKinds

PollIteration ==
    (step = "lbs" /\ phase = "poll") =>
        IF phase' = "poll" /\ idx' = idx
        THEN /\ ~PollTimedOut(elapsed, LbDeletionTimeoutSecs)
             /\ elapsed' >= elapsed + LbPollIntervalSecs
        ELSE \/ /\ PollTimedOut(elapsed, LbDeletionTimeoutSecs)
                /\ outcomes' = Append(outcomes, "timeout")
             \/ /\ ~PollTimedOut(elapsed, LbDeletionTimeoutSecs)
                /\ PollIsTerminal(lastPoll')
                /\ outcomes' = Append(outcomes, "deleted")

\* The DELETE requests of a cleanup function are candidates of its list
\* response, each sent once.
DeletesBounded ==
    /\ Len(reqs) <= Len(candidates)
    /\ Len(candidates) <= Len(listed)
    /\ reqs = SubSeq(candidates, 1, Len(reqs))

\* C36: cleanup_before_destroy always terminates, given that every HTTP
\* request returns: a completion poll ends by a terminal observation or by the
\* timeout check at the top of an iteration (elapsed > 120 s, 5 s of sleep
\* between status GETs), and the DELETE requests are bounded by the sizes of
\* the list responses.
C36_CleanupBeforeDestroyTerminates ==
    /\ (entry = "before") ~> (entry # "before")
    /\ [](entry = "before" =>
            /\ DeletesBounded
            /\ elapsed <= LbDeletionTimeoutSecs + HttpTimeoutSecs + LbPollIntervalSecs)
    /\ [][entry = "before" => PollIteration]_vars

\* A completion poll of cleanup_before_destroy has run into the timeout, and
\* the next load balancer is being polled.
C36_Witness ==
    /\ entry = "before" /\ step = "lbs" /\ phase = "poll"
    /\ outcomes # << >> /\ outcomes[Len(outcomes)] = "timeout"
    /\ Len(reqs) = 2
    /\ elapsed > 0


(***************************************************************************)
(* wait_for_lb_deletion: the status GETs that decide nothing.              *)
(***************************************************************************)
\* A transport error, a status that is neither 404 nor 2xx, or a 2xx whose
\* body does not parse or shows no terminal provisioning_status.
Inconclusive(resp) ==
    \/ resp.err
    \/ ~resp.err /\ resp.code # 404 /\ resp.code \notin 200..299
    \/ /\ ~resp.err /\ resp.code \in 200..299
       /\ \/ ~resp.body.json
          \/ resp.body.provisioning_status \notin {Some("DELETED"), Some("ERROR")}

\* One iteration of the poll that passed the timeout check and sent its GET.
\* An inconclusive response counts nothing, sends no DELETE, and keeps the
\* poll going after the sleep; the poll is only left on a terminal observation.
InconclusivePollStep ==
    (step = "lbs" /\ phase = "poll" /\ ~PollTimedOut(elapsed, LbDeletionTimeoutSecs)) =>
        /\ Inconclusive(lastPoll') =>
              /\ phase' = "poll" /\ idx' = idx /\ stepResult' = "none"
              /\ outcomes' = outcomes
              /\ deleted_count' = deleted_count /\ failed_count' = failed_count
              /\ reqs' = reqs
              /\ elapsed' - elapsed \in { l + LbPollIntervalSecs : l \in Latencies }
        /\ phase' # "poll" => TerminalObservation(lastPoll')

ObservedGpuOrArgocd == observed.phase \in {"gpu", "argocd"}

\* The install log was read, and the one read shows the completion marker
\* and "ERROR".
ObservedCompleteAndError ==
    /\ ObservedGpuOrArgocd
    /\ observed.cmd2 = "ok"
    /\ Contains(observed.stdout2, CompleteMarker(observed.phase))
    /\ Contains(observed.stdout2, "ERROR")

\* k3s-server.log was read successfully and contains the phase's start marker.
ObservedStartMarker ==
    /\ observed.cmd = "ok"
    /\ Contains(observed.stdout, StartMarker(observed.phase))

\* C38: in the GPU and ArgoCD phases, when one read of the install log shows
\* both the completion marker and "ERROR", completion takes precedence: the
\* phase completes and no error is raised.  The install log is consulted only
\* in iterations in which k3s-server.log was read successfully and contains
\* the start marker: in any other iteration no command reads it and what it
\* holds completes nothing.
C38_CompletionBeforeInstallError ==
    /\ ObservedCompleteAndError =>
          /\ PhaseComplete(observed.phase) # None
          /\ result # "Err"
          /\ pc \in {NextPhase(observed.phase, gpu_enabled, argocd_enabled), "done"}
                    \cup LaterPhases(observed.phase)
    /\ (ObservedGpuOrArgocd /\ ~ObservedStartMarker) =>
          /\ observed.cmd2 = "none"
          /\ PhaseComplete(observed.phase) = None
          /\ pc \in {observed.phase, "done"}

\* The ArgoCD install log read "ERROR: retried" and the completion marker; the
\* phase is complete and the monitor is in the Tailscale-serve phase.
C38_Witness ==
    /\ ObservedCompleteAndError
    /\ observed.phase = "argocd"
    /\ argocd_install_complete # None
    /\ pc = "serve" /\ result = "none"


(***************************************************************************)
(* The connection the commands choose, and ConnectionStrategy.             *)
(***************************************************************************)
\* The provider cmd_ssh has extracted and the server selected in it.
SelectedProvider == extract_cloud_providers(call.args.outputs).val[1]
SelectedServer == SelectedProvider.servers[call.args.selected + 1]

\* cmd_ssh has chosen how to connect to a selected server, or bailed for the
\* lack of a way to.
ConnectionChosen ==
    /\ Returned("cmd_ssh")
    /\ extract_cloud_providers(call.args.outputs).state = "ok"
    /\ call.args.selected + 1 <= Len(SelectedProvider.servers)
    /\ call.ret # Err("Tailscale verification failed")

\* C39 as stated: for every provider produced by the topology extraction and
\* every server in it, the connection the command uses (the Tailscale
\* hostname, the bastion jump, or an error) is the one that
\* ConnectionStrategy::from_server(server, provider.bastion_ip) returns; a
\* server without a Tailscale hostname is reached through the bastion whenever
\* there is a bastion IP.
C39_ConnectionIsFromServer ==
    ConnectionChosen =>
        LET strategy == from_server(SelectedServer, SelectedProvider.bastion_ip)
        IN  /\ call.ret.state = strategy.state
            /\ call.ret.state = "ok" => call.ret.val = strategy.val
            /\ (SelectedServer.tailscale_hostname = None /\ IsSome(SelectedProvider.bastion_ip))
                  => (call.ret.state = "ok" /\ call.ret.val.strategy = "Bastion")


(***************************************************************************)
(* The list selectors.                                                     *)
(***************************************************************************)
\* The index that follows i going down a list of len items, and the one that
\* follows it going up.
Below(i, len) == IF i = len - 1 THEN 0 ELSE i + 1
Above(i, len) == IF i = 0 THEN len - 1 ELSE i - 1

\* The selection is an index of the list, or, on an empty list, empty.
SelectionInRange ==
    IF call.args.items = << >>
    THEN call.selected = None
    ELSE /\ call.selected # None
         /\ Unwrap(call.selected) \in 0..(Len(call.args.items) - 1)

\* get_selected returned the selected item, or none on an empty list.
SelectedReturned ==
    call.op = "get_selected" =>
        /\ call.ret.state = "ok"
        /\ IF call.args.items = << >> THEN call.ret.val = None
           ELSE call.ret.val = Some(call.args.items[Unwrap(call.selected) + 1])

\* One call of next or previous: it moves the selection one item down or up,
\* from the last item to the first and from the first to the last; and a
\* previous after a next, or a next after a previous, gives the selection
\* back.  On an empty list it leaves the selection empty.
SelectorStep ==
    call'.keys = call.keys + 1 =>
        IF call.args.items = << >> THEN call'.selected = None
        ELSE /\ call'.op = "next" =>
                  call'.selected = Some(Below(Unwrap(call.selected), Len(call.args.items)))
             /\ call'.op = "previous" =>
                  call'.selected = Some(Above(Unwrap(call.selected), Len(call.args.items)))
             /\ (call.op = "next" /\ call'.op = "previous") => call'.selected = call.before
             /\ (call.op = "previous" /\ call'.op = "next") => call'.selected = call.before

\* C40: for ServerSelector, CloudProviderSelector and MainMenuSelector, after
\* any sequence of next and previous on a non-empty list the selected index is
\* within [0, len); next wraps from the last item to the first and previous
\* from the first to the last; next and previous are inverses of each other;
\* on an empty list they leave the selection empty and get_selected returns
\* none, so that no index outside the list is ever used.
C40_SelectionStaysInRange ==
    /\ [](SelectionInRange /\ SelectedReturned)
    /\ [][SelectorStep]_vars

\* A ServerSelector over the longest list, after a previous that wrapped from
\* the first item to the last and a next that wrapped back, with the first
\* item returned.
C40_Witness ==
    /\ call.fn = "ServerSelector" /\ Len(call.args.items) = MaxItems
    /\ call.keys = 2 /\ call.op = "get_selected"
    /\ call.selected = Some(0)
    /\ call.ret = Ok(Some("k3s-server-0"))

=============================================================================
